---- MODULE Spec2Model ----
(***************************************************************************)
(* State-machine model of the off-chain claim protocol of xrpl-stream:     *)
(*   - ChannelStore (src/core/channelStore.js): in-memory maps + the JSON  *)
(*     file they are persisted to;                                         *)
(*   - the claim validator (validator.js, kept in src/core/contract.js);   *)
(*   - the /stream/start, /stream/stop and /stream/validate handlers       *)
(*     (src/api/streamRoutes.js), each an async function that can be       *)
(*     suspended at every await, so several handlers interleave;           *)
(*   - StreamingSigner (src/core/signer.js).                               *)
(* Amounts are drops (naturals), time is Date.now() in milliseconds.       *)
(***************************************************************************)
EXTENDS Integers, Sequences, FiniteSets, TLC

\* ---------------------------------------------------------------- bounds
MaxAmount == 2
MaxEvents == 3
MaxNow == 61001
MaxClaimsPerMinute == 1
MaxSignerNow == 5000
T0 == 1000

\* ------------------------------------------------------ program constants
RateWindowMs == 60000
HistoryCap == 1000
Capacity == 1

Channels == {"c1", "c2"}
RequestChannels == {"c1"}
MaxHistoryCalls == 1002
PaymentCounts == {1, 2, 3}
MaxTimers == 3
CxProcs == {1, 2}
MaxConnectCalls == 5
MaxRegistryOps == 3
MaxRegistryNow == 2
DefaultIds == {"music-stream"}
MaxReconnectAttempts == 10
InitialReconnectDelay == 2000
MaxReconnectDelay == 30000
ConnectionTimeout == 10000
WaitTimeout == 30000
Timers == 1..MaxTimers
PayProcs == {1, 2, 3}
SenderKey == "kS"
Keys == {"kS", "kX"}
Procs == {1, 2}
Amounts == 1..MaxAmount
TickSteps == {RateWindowMs, RateWindowMs + 1}
SignerTickSteps == {500, 1000}
Rates == {1, 2}
Totals == {0, 3}
AdviceAmounts == 0..3
MinAmounts == {2, 3}
MaxTimes == {1000}
AdviceNows == {5000, 5500}
FinalizationTimes == {0, 3000, 4000, 4500}
CreationTimes == {3000, 4500}
DropsPerXrp == 1000000
DefaultMinAmountToFinalize == 100000000
DefaultMaxTimeSinceLastFinalization == 3600000
SignAmounts == {1, 2, DropsPerXrp, DropsPerXrp + 1}
SignClaimCopies == {"signer.js", "channelStore.js"}
VerifyChannels == Channels
DataFields == {"lastValidAmount", "lastSignature", "lastUpdateTime", "publicKey"}
FieldValues == {1, 2}
UpdateNows == {2000, 3000}

VARIABLES
  initialized,   \* ChannelStore.initialized
  channels,      \* ChannelStore.channels      (Map channelId -> record)
  claimHistory,  \* ChannelStore.claimHistory  (Map channelId -> array)
  disk,          \* content of the file at storePath
  sessions,      \* activeSessions, the `${channelId}-receiver` entries
  now,           \* Date.now()
  pc,            \* position of each in-flight request handler
  req,           \* locals of each in-flight request handler
  inflight,      \* the JSON text an awaited fs.writeFile is writing
  loading,       \* handler is inside ChannelStore.initialize()
  nEvents,       \* history: requests started and crashes so far
  ackMax,        \* history: per channel, the highest amount returned with stored: true
  ackTimes,      \* history: per channel, when the last MaxClaimsPerMinute of them were returned
  sgRate, sgActive, sgStart, sgTotal,   \* StreamingSigner fields
  sgStopAmount,  \* history: the amount authorized when stop() was called
  sgSigned,      \* history: the amount of the claim signed last
  sgSignedAt,    \* history: Date.now() when it was signed
  sgClean,       \* history: no start(), stop() or updateTotal() since it was signed
  sgPrev,        \* history: the amount of the claim signed before it, when the
                 \*   two calls were made at one instant or both while stopped
  sgPrevAt,      \* history: Date.now() when that claim was signed
  sgHigh,        \* history: the highest amount signed since new or updateTotal()
  sfIn,          \* a call of shouldFinalizeClaim: the record it finds, its options, Date.now()
  sfOut,         \* what that call returned
  vfIn,          \* a signClaim call and the validateClaim call its claim is given to
  vfOut,         \* how far the two calls got, the signature, the verdict
  ucIn,          \* a call of updateChannel: the Map's entry, the data, Date.now()
  ucOut,         \* the record that call put into the Map
  hcHist,        \* the history array of a channel that addClaimToHistory is called on
  hcCalls,       \* the number of those calls so far
  rlCount,       \* RLUSD session: paymentCount (0: no session was started)
  rlActive,      \* the session is in activeRLUSDSessions
  rlCompleted,   \* session.paymentsCompleted
  rlHistory,     \* paymentsCompleted of the copy in paymentHistory, -1 without one
  rlPc,          \* position of each executePayment request
  rlPaid,        \* history: payments of the session the ledger has executed
  tmSession,     \* auto-execution: the handler has an active session for the sessionId
  tmCreated,     \* the number of setInterval timers created for the sessionId
  tmRunning,     \* the timers that have not been cleared
  tmRegistered,  \* the timer whose intervalId is in activeStreams, 0 without an entry
  tmDue,         \* the timers whose stream duration has elapsed
  cxConnected,   \* XRPLClient: this.client && this.client.isConnected()
  cxIsConnecting,\* this.isConnecting
  cxAttempts,    \* this.reconnectAttempts
  cxDelay,       \* this.reconnectDelay, in ms
  cxPc,          \* position of each connect() call
  cxAge,         \* per call: ticks waited in waitForConnection, ticks an attempt
                 \*   has lasted, or ticks left of the backoff delay
  cxRetries,     \* history: the retries the call has made
  cxAllFailed,   \* history: no attempt has succeeded since the call began
  cxCalls,       \* history: the connect() calls made so far
  registry,      \* STREAMING_CONTRACTS: contractId -> contract
  rgNow,         \* Date.now() as the registry reads it
  rgLast,        \* the last registry call: op, contractId, providerId, result
  rgOps          \* history: the registry calls made so far

storeVars == <<initialized, channels, claimHistory, disk, sessions, pc, req,
               inflight, loading, nEvents, ackMax, ackTimes>>
signerVars == <<sgRate, sgActive, sgStart, sgTotal, sgStopAmount, sgSigned,
                sgSignedAt, sgClean, sgPrev, sgPrevAt, sgHigh>>
pureVars == <<sfIn, sfOut, vfIn, vfOut, ucIn, ucOut, hcHist, hcCalls>>
paymentVars == <<rlCount, rlActive, rlCompleted, rlHistory, rlPc, rlPaid>>
timerVars == <<tmSession, tmCreated, tmRunning, tmRegistered, tmDue>>
clientVars == <<cxConnected, cxIsConnecting, cxAttempts, cxDelay, cxPc, cxAge,
                cxRetries, cxAllFailed, cxCalls>>
registryVars == <<registry, rgNow, rgLast, rgOps>>
serviceVars == <<paymentVars, timerVars, clientVars, registryVars>>
paymentRest == <<storeVars, signerVars, pureVars, now, timerVars, clientVars, registryVars>>
timerRest == <<storeVars, signerVars, pureVars, now, paymentVars, clientVars, registryVars>>
clientRest == <<storeVars, signerVars, pureVars, now, paymentVars, timerVars, registryVars>>
registryRest == <<storeVars, signerVars, pureVars, now, paymentVars, timerVars, clientVars>>
adviceVars == <<sfIn, sfOut, vfIn, vfOut, ucIn, ucOut, hcHist, hcCalls, serviceVars>>
vars == <<initialized, channels, claimHistory, disk, sessions, now, pc, req,
          inflight, loading, nEvents, ackMax, ackTimes,
          sgRate, sgActive, sgStart, sgTotal, sgStopAmount, sgSigned,
          sgSignedAt, sgClean, sgPrev, sgPrevAt, sgHigh, sfIn, sfOut,
          vfIn, vfOut, ucIn, ucOut, hcHist, hcCalls, serviceVars>>

\* ------------------------------------------------------------- data shapes
NoSig == [chan |-> "none", amt |-> 0, key |-> "none"]
Sigs == [chan : Channels, amt : Amounts, key : Keys]

\* a channel id the Map has no entry for
NoChannel == [present |-> FALSE, lastValidAmount |-> 0, lastFinalizedAmount |-> 0,
              lastFinalizationTime |-> 0, lastSignature |-> NoSig, publicKey |-> "none",
              hasLastValidAmount |-> FALSE]

EmptyChannels == [c \in Channels |-> NoChannel]
EmptyHistory == [c \in Channels |-> <<>>]

NoFile == [kind |-> "ENOENT", channels |-> EmptyChannels, claimHistory |-> EmptyHistory]
TornFile == [kind |-> "corrupt", channels |-> EmptyChannels, claimHistory |-> EmptyHistory]

\* a handler's locals: the claim, the key validateClaim verifies with (vkey),
\* whether channelInfo is passed (info), the previousAmount it has read (prev);
\* floor is history: the highest amount acknowledged when the request arrived
NoReq == [chan |-> "none", amount |-> 0, sig |-> NoSig,
          vkey |-> "none", info |-> FALSE, prev |-> 0, floor |-> 0]

Max(a, b) == IF a >= b THEN a ELSE b

\* the last MaxClaimsPerMinute entries of a sequence
LastAcks(s) == IF Len(s) > MaxClaimsPerMinute THEN Tail(s) ELSE s

\* ------------------------------------------------------------ ChannelStore
\* getLastValidAmount: channel?.lastValidAmount || '0'
GetLastValidAmount(chs, c) == IF chs[c].present THEN chs[c].lastValidAmount ELSE 0

\* hasChannel
HasChannel(chs, c) == chs[c].present

\* C7 mutant: the merge with the spreads swapped, { ...data, ...existing },
\* so that the fields of an existing record win over the new claim's
UpdateChannelRecordExistingWins(existing, amount, sig, pk) ==
  IF existing.present
    THEN existing
    ELSE [existing EXCEPT !.present = TRUE, !.lastValidAmount = amount,
                          !.lastSignature = sig, !.publicKey = pk,
                          !.hasLastValidAmount = TRUE]

\* updateChannel: { ...existing, ...data, channelId }
UpdateChannelRecord(existing, amount, sig, pk) ==
  [existing EXCEPT !.present = TRUE, !.lastValidAmount = amount,
                   !.lastSignature = sig, !.publicKey = pk,
                   !.hasLastValidAmount = TRUE]

\* updateFinalizedAmount: channel.lastFinalizedAmount = amount and
\* channel.lastFinalizationTime = Date.now(), on the record or on {}
UpdateFinalizedRecord(existing, amount, t) ==
  [existing EXCEPT !.present = TRUE, !.lastFinalizedAmount = amount,
                   !.lastFinalizationTime = t]

\* initializeChannel: the record it puts in the Map
InitialChannelRecord ==
  [present |-> TRUE, lastValidAmount |-> 0, lastFinalizedAmount |-> 0,
   lastFinalizationTime |-> 0, lastSignature |-> NoSig, publicKey |-> "none",
   hasLastValidAmount |-> TRUE]

\* initializeChannel: this.channels.set(channelId, channelData)
InitializeChannelRecord(existing) == InitialChannelRecord

\* initializeChannel: this.claimHistory.set(channelId, [])
InitializeChannelHistory(existing) == <<>>

\* C27 mutant: the push without the shift
PushHistoryUnbounded(h, entry) == Append(h, entry)

\* addClaimToHistory: push, then shift when longer than the cap
PushHistory(h, entry) ==
  LET h2 == Append(h, entry)
  IN IF Len(h2) > HistoryCap THEN Tail(h2) ELSE h2

\* getRecentClaims: history.filter(claim => claim.timestamp >= cutoff)
InWindow(e, t) == e.timestamp >= t - RateWindowMs
GetRecentClaims(h, t) == SelectSeq(h, LAMBDA e : InWindow(e, t))

\* persist: the object that is stringified when persist() is called
Snapshot(chs, hist) == [kind |-> "ok", channels |-> chs, claimHistory |-> hist]

\* initialize: what a Map holds after the file has been read and parsed: the
\* file's content, or, when the file is missing or cannot be parsed, what the
\* Map held (the catch leaves it alone)
LoadChannels(d, chs) == IF d.kind = "ok" THEN d.channels ELSE chs
LoadHistory(d, hist) == IF d.kind = "ok" THEN d.claimHistory ELSE hist

\* --------------------------------------------------------------- validator
\* xrpl.verifyPaymentChannelClaim(channelId, amount, signature, publicKey)
VerifySignature(c, a, sig, key) == sig.chan = c /\ sig.amt = a /\ sig.key = key

\* validateClaim step 2: currentAmount <= previousAmount
IsStale(a, previous) == a <= previous

\* validateClaim step 3: channelInfo given and currentAmount > channelBalance
ExceedsBalance(a, info) == info /\ a > Capacity

\* validateClaim step 3: channelInfo.PublicKey !== publicKey
KeyMismatch(key, info) == info /\ key # SenderKey

\* validateClaimRate: recentClaims.length >= maxClaimsPerMinute
RateExceeded(h, t) == Len(GetRecentClaims(h, t)) >= MaxClaimsPerMinute

\* validateClaimRate: what it returns
ValidateClaimRateResult(h, t) ==
  IF RateExceeded(h, t)
    THEN [valid |-> FALSE, reason |-> "Claim rate limit exceeded"]
    ELSE [valid |-> TRUE, reason |-> ""]

\* validateClaim for request r: what it returns once getLastValidAmount has
\* returned `previous` (the signature r carries was verified on entry)
ValidateClaimResult(r, previous) ==
  IF IsStale(r.amount, previous)
    THEN [valid |-> FALSE, reason |-> "Amount must be greater than previous claim",
          previousAmount |-> previous, increment |-> 0]
    ELSE IF ExceedsBalance(r.amount, r.info)
      THEN [valid |-> FALSE, reason |-> "Amount exceeds channel balance",
            previousAmount |-> 0, increment |-> 0]
      ELSE IF KeyMismatch(r.vkey, r.info)
        THEN [valid |-> FALSE, reason |-> "Public key does not match channel",
              previousAmount |-> 0, increment |-> 0]
        ELSE [valid |-> TRUE, reason |-> "",
              previousAmount |-> previous, increment |-> r.amount - previous]

\* --------------------------------------------------------- StreamingSigner
\* C12 mutant: Math.round in place of Math.floor
ElapsedSecondsRounded(t, start) == (t - start + 500) \div 1000

\* Math.floor((Date.now() - this.startTime) / 1000)
ElapsedSeconds(t, start) == (t - start) \div 1000

\* C18 mutant: getCurrentAmount without the isActive test
GetCurrentAmountAccruing(active, start, total, rate, t) ==
  IF start = 0
    THEN total
    ELSE total + ElapsedSeconds(t, start) * rate

\* getCurrentAmount: currentTotal while stopped or never started (startTime
\* is null, modelled as 0, which is as falsy), else currentTotal plus the
\* whole seconds elapsed times the rate
GetCurrentAmount(active, start, total, rate, t) ==
  IF ~active \/ start = 0
    THEN total
    ELSE total + ElapsedSeconds(t, start) * rate

\* the amount the session authorizes now
CurrentAmount == GetCurrentAmount(sgActive, sgStart, sgTotal, sgRate, now)

\* ------------------------------------------------------ shouldFinalizeClaim
\* C14 mutant: the time test with >= in place of >
TimeThresholdExceededOrEqual(elapsed, maxTime) == elapsed >= maxTime

\* timeSinceLastFinalization > maxTimeSinceLastFinalization
TimeThresholdExceeded(elapsed, maxTime) == elapsed > maxTime

\* no call made
NoAdvice == [evaluated |-> FALSE, shouldFinalize |-> FALSE, reason |-> "",
             hasUnclaimed |-> FALSE, unclaimedAmount |-> 0]

\* the calls: the record getChannelData returns (d.present is FALSE for null;
\* lastFinalizationTime 0 is the field being absent), the options
\* minAmountToFinalize and maxTimeSinceLastFinalization, and Date.now()
\* updateFinalizedAmount stores an amount that was the lastValidAmount and
\* stamps the time; a record it never touched has amount 0 and no time
AdviceInputs ==
  {in \in [d : [present : BOOLEAN, lastValidAmount : AdviceAmounts,
               lastFinalizedAmount : AdviceAmounts,
               lastFinalizationTime : FinalizationTimes,
               createdAt : CreationTimes],
           minAmountToFinalize : MinAmounts,
           maxTimeSinceLastFinalization : MaxTimes,
           now : AdviceNows] :
     /\ in.d.lastFinalizedAmount <= in.d.lastValidAmount
     /\ in.d.lastFinalizationTime = 0 => in.d.lastFinalizedAmount = 0
     /\ in.d.lastFinalizationTime > 0 => in.d.lastFinalizationTime >= in.d.createdAt}

NoAdviceInput ==
  [d |-> [present |-> FALSE, lastValidAmount |-> 0, lastFinalizedAmount |-> 0,
          lastFinalizationTime |-> 0, createdAt |-> 0],
   minAmountToFinalize |-> 0, maxTimeSinceLastFinalization |-> 0, now |-> 0]

\* shouldFinalizeClaim(channelId, { minAmountToFinalize, maxTimeSinceLastFinalization })
ShouldFinalizeClaim(in) ==
  IF ~in.d.present
    THEN [evaluated |-> TRUE, shouldFinalize |-> FALSE, reason |-> "No channel data found",
          hasUnclaimed |-> FALSE, unclaimedAmount |-> 0]
    ELSE
      LET unclaimedAmount == in.d.lastValidAmount - in.d.lastFinalizedAmount
          timeSinceLastFinalization == in.now - in.d.lastFinalizationTime
      IN IF unclaimedAmount >= in.minAmountToFinalize
           THEN [evaluated |-> TRUE, shouldFinalize |-> TRUE,
                 reason |-> "Unclaimed amount threshold reached",
                 hasUnclaimed |-> TRUE, unclaimedAmount |-> unclaimedAmount]
           ELSE IF TimeThresholdExceeded(timeSinceLastFinalization,
                                         in.maxTimeSinceLastFinalization)
                     /\ unclaimedAmount > 0
             THEN [evaluated |-> TRUE, shouldFinalize |-> TRUE,
                   reason |-> "Time threshold exceeded",
                   hasUnclaimed |-> TRUE, unclaimedAmount |-> unclaimedAmount]
             ELSE [evaluated |-> TRUE, shouldFinalize |-> FALSE,
                   reason |-> "No finalization criteria met",
                   hasUnclaimed |-> TRUE, unclaimedAmount |-> unclaimedAmount]

\* ------------------------------------------------- signClaim, validateClaim
\* signer.js signClaim: the text 'CLM\0' + channelId + the amount in drops as
\* 16 hex digits, hex-encoded character by character
ClaimHex(c, a) == [fmt |-> "text", chan |-> c, drops |-> a]

\* ripple-binary-codec encodeForSigningClaim({channel, amount}): the prefix,
\* the 32 bytes of the channel id, the amount in drops as 8 bytes
EncodeForSigningClaim(c, a) == [fmt |-> "claim", chan |-> c, drops |-> a]

\* (parseInt(amount) / 1000000).toString(): whole XRP and millionths
DropsToXrp(a) == <<a \div DropsPerXrp, a % DropsPerXrp>>

\* xrpToDrops, applied by verifyPaymentChannelClaim to its amount
XrpToDrops(x) == x[1] * DropsPerXrp + x[2]

NoSignature == [form |-> "none", key |-> "none", msg |-> ClaimHex("none", 0)]

\* ripple-keypairs sign(signingData, wallet.privateKey)
SignData(msg, key) == [form |-> "signature", key |-> key, msg |-> msg]

\* wallet.sign(claimHex): Wallet.sign takes a transaction; given a string it
\* throws or returns a {tx_blob, hash} object, never a claim signature
WalletSign(msg, key) == {[form |-> "threw", key |-> key, msg |-> msg],
                         [form |-> "tx_blob", key |-> key, msg |-> msg]}

\* the signature a copy of signClaim(wallet, channelId, amount) can return
SignClaim(copy, key, c, a) ==
  IF copy = "signer.js"
    THEN WalletSign(ClaimHex(c, a), key)
    ELSE {SignData(EncodeForSigningClaim(c, a), key)}

\* a signature with a byte changed
Tampered(sig) == [sig EXCEPT !.form = "tampered"]

\* xrpl.verifyPaymentChannelClaim(channelId, xrpAmount, signature, publicKey)
VerifyPaymentChannelClaim(c, xrp, sig, key) ==
  /\ sig.form = "signature"
  /\ sig.key = key
  /\ sig.msg = EncodeForSigningClaim(c, XrpToDrops(xrp))

\* validateClaim step 1 (and the verifyClaim that converts to XRP)
SignatureCheck(c, a, sig, key) == VerifyPaymentChannelClaim(c, DropsToXrp(a), sig, key)

NoVerifyInput ==
  [copy |-> "none", wallet |-> "none", chan |-> "none", amount |-> 0,
   vchan |-> "none", vamount |-> 0, vkey |-> "none", tamper |-> FALSE]

\* the calls: which signClaim, its arguments, and what the check is given
VerifyInputs ==
  [copy : SignClaimCopies, wallet : Keys, chan : RequestChannels, amount : SignAmounts,
   vchan : VerifyChannels, vamount : SignAmounts, vkey : Keys, tamper : BOOLEAN]

NoVerify == [stage |-> "new", sig |-> NoSignature, accepted |-> FALSE]

\* ------------------------------------------------------------ updateChannel
\* a record as an object: a function from the names of its fields
NoRecord == [f \in {} |-> 0]

\* the record initializeChannel creates
FreshRecord ==
  [f \in {"channelId", "lastValidAmount", "lastFinalizedAmount", "createdAt"} |->
     IF f = "channelId" THEN 0 ELSE IF f = "createdAt" THEN 1000 ELSE 0]

\* a record with an accepted claim that was finalized
SettledRecord ==
  [f \in {"channelId", "lastValidAmount", "lastSignature", "lastUpdateTime", "publicKey",
          "lastModified", "lastFinalizedAmount", "lastFinalizationTime", "createdAt"} |->
     IF f \in {"channelId"} THEN 0
     ELSE IF f \in {"lastValidAmount", "lastSignature", "publicKey", "lastFinalizedAmount"} THEN 1
     ELSE IF f = "createdAt" THEN 1000 ELSE 1500]

\* { ...a, ...b }
Spread(a, b) ==
  [f \in DOMAIN a \cup DOMAIN b |-> IF f \in DOMAIN b THEN b[f] ELSE a[f]]

\* C23 mutant: the data replaces the record
UpdatedReplacing(existing, data, t) ==
  Spread(data, [f \in {"channelId", "lastModified"} |-> IF f = "channelId" THEN 0 ELSE t])

\* updateChannel: { ...existing, ...data, channelId, lastModified: Date.now() }
Updated(existing, data, t) ==
  Spread(Spread(existing, data),
         [f \in {"channelId", "lastModified"} |-> IF f = "channelId" THEN 0 ELSE t])

NoUpdateInput == [existing |-> NoRecord, data |-> NoRecord, now |-> 0]

\* the calls: this.channels.get(channelId) || {}, the data, Date.now()
UpdateInputs ==
  [existing : {NoRecord, FreshRecord, SettledRecord},
   data : UNION {[D -> FieldValues] : D \in SUBSET DataFields},
   now : UpdateNows]

NoUpdate == [done |-> FALSE, record |-> NoRecord]

\* ------------------------------------------------------------------- Init
\* a new store on a machine without a store file, no sessions, no requests
\* the process has started: empty Maps, and the store file as an earlier run
\* left it
StoreStart(file) ==
  /\ initialized = FALSE
  /\ channels = EmptyChannels
  /\ claimHistory = EmptyHistory
  /\ disk = file
  /\ sessions = [c \in Channels |-> "none"]
  /\ now = T0
  /\ pc = [p \in Procs |-> "idle"]
  /\ req = [p \in Procs |-> NoReq]
  /\ inflight = [p \in Procs |-> NoFile]
  /\ loading = [p \in Procs |-> FALSE]
  /\ nEvents = 0
  /\ ackMax = [c \in Channels |-> 0]
  /\ ackTimes = [c \in Channels |-> <<>>]

StoreInit == StoreStart(NoFile)

\* the file an earlier run left after POST /start initialized channel c1
InitializedFile ==
  Snapshot([EmptyChannels EXCEPT !["c1"] = InitializeChannelRecord(NoChannel)],
           [EmptyHistory EXCEPT !["c1"] = InitializeChannelHistory(<<>>)])

\* new StreamingSigner(wallet, channelId, ratePerSecond)
SignerNew(rate) ==
  /\ sgRate = rate
  /\ sgActive = FALSE
  /\ sgStart = 0
  /\ sgTotal = 0
  /\ sgStopAmount = -1
  /\ sgSigned = -1
  /\ sgSignedAt = 0
  /\ sgClean = FALSE
  /\ sgPrev = -1
  /\ sgPrevAt = 0
  /\ sgHigh = -1

\* no call of shouldFinalizeClaim
AdviceNone == sfIn = NoAdviceInput /\ sfOut = NoAdvice

\* no call of signClaim
VerifyNone == vfIn = NoVerifyInput /\ vfOut = NoVerify

\* no direct call of updateChannel
UpdateNone == ucIn = NoUpdateInput /\ ucOut = NoUpdate

\* a channel whose history is empty: this.claimHistory.get(channelId) || []
HistoryNew == hcHist = <<>> /\ hcCalls = 0

\* rlusdHandlers: activeRLUSDSessions = new Map(), paymentHistory = new Map()
PaymentNew ==
  /\ rlCount = 0
  /\ rlActive = FALSE
  /\ rlCompleted = 0
  /\ rlHistory = -1
  /\ rlPc = [p \in PayProcs |-> "idle"]
  /\ rlPaid = 0

\* unifiedRoutes: activeStreams = new Map(), no session, no timer
TimerNew ==
  /\ tmSession = FALSE
  /\ tmCreated = 0
  /\ tmRunning = {}
  /\ tmRegistered = 0
  /\ tmDue = {}

\* new XRPLClient()
ClientNew ==
  /\ cxConnected = FALSE
  /\ cxIsConnecting = FALSE
  /\ cxAttempts = 0
  /\ cxDelay = InitialReconnectDelay
  /\ cxPc = [p \in CxProcs |-> "idle"]
  /\ cxAge = [p \in CxProcs |-> 0]
  /\ cxRetries = [p \in CxProcs |-> 0]
  /\ cxAllFailed = [p \in CxProcs |-> TRUE]
  /\ cxCalls = 0

\* a default contract as initializeDefaults() stores it
DefaultContract(id) ==
  [contractId |-> id, providerId |-> "system", providerAddress |-> "null",
   currency |-> "XRP", displayName |-> "Music", description |-> "d",
   category |-> "media", ratePerSecond |-> "1000",
   createdAt |-> 0, updatedAt |-> 0, status |-> "active"]

\* the registry after the module has loaded: initializeDefaults()
RegistryNew ==
  /\ registry = [id \in DefaultIds |-> DefaultContract(id)]
  /\ rgNow = 0
  /\ rgLast = [op |-> "none", contractId |-> "none", providerId |-> "none",
               result |-> "none"]
  /\ rgOps = 0

\* the other modules of the service as they are when the process has started
ServiceNew == PaymentNew /\ TimerNew /\ ClientNew /\ RegistryNew

Init == StoreInit /\ SignerNew(1) /\ AdviceNone /\ VerifyNone /\ UpdateNone /\ HistoryNew /\ ServiceNew

SignerInit ==
  /\ StoreInit /\ (\E rate \in Rates : SignerNew(rate)) /\ AdviceNone /\ VerifyNone /\ UpdateNone
  /\ HistoryNew /\ ServiceNew

\* a call of shouldFinalizeClaim about to be made
AdviceInit ==
  /\ StoreInit /\ SignerNew(1) /\ sfIn \in AdviceInputs /\ sfOut = NoAdvice
  /\ VerifyNone /\ UpdateNone /\ HistoryNew /\ ServiceNew

\* a call of signClaim about to be made
VerifyInit ==
  /\ StoreInit /\ SignerNew(1) /\ AdviceNone /\ vfIn \in VerifyInputs /\ vfOut = NoVerify
  /\ UpdateNone /\ HistoryNew /\ ServiceNew

\* a call of updateChannel about to be made
UpdateInit ==
  /\ StoreInit /\ SignerNew(1) /\ AdviceNone /\ VerifyNone
  /\ ucIn \in UpdateInputs /\ ucOut = NoUpdate /\ HistoryNew /\ ServiceNew

\* ------------------------------------------------- ChannelStore.initialize
\* the handler's next step is a store method, all of which start with
\* `await this.initialize()`
AtStoreCall(p) == pc[p] \in {"v_rate", "v_read", "v_update", "v_hist", "s_has", "s_init",
                           "f_get", "f_update", "q_stats", "q_advice", "v_bad"}

\* the store is loaded and this handler is not itself still loading it
StoreReady(p) == initialized /\ ~loading[p]

\* handler p has a continuation in the microtask queue: the store method it
\* has called goes on without waiting for I/O (when the store is not loaded
\* that continuation is the start of initialize())
Runnable(p) == AtStoreCall(p) /\ ~loading[p]

\* the microtask queue is empty: Node takes the next event (a request, the
\* completion of a file or network operation, a timer) only then
Quiescent == \A p \in Procs : ~Runnable(p)

\* initialize(), up to its awaits: `if (this.initialized) return` did not return
InitializeBegin(p) ==
  /\ AtStoreCall(p)
  /\ ~initialized
  /\ ~loading[p]
  /\ loading' = [loading EXCEPT ![p] = TRUE]
  /\ UNCHANGED <<initialized, channels, claimHistory, disk, sessions, now, pc, req,
                 inflight, nEvents, ackMax, ackTimes>>
  /\ UNCHANGED <<signerVars, adviceVars>>

\* the writes that are in flight
Writers == {p \in Procs : pc[p] \in {"v_write", "v_hwrite", "s_write", "f_write"}}

\* what readFile can return: the file, or the unparsable prefix of it when a
\* writeFile of this process is in the middle of rewriting it
Readable == {disk} \cup (IF Writers = {} THEN {} ELSE {TornFile})

\* initialize(), after readFile: the Maps are replaced by the file's content
InitializeEnd(p) ==
  /\ Quiescent
  /\ loading[p]
  /\ \E d \in Readable :
       /\ channels' = LoadChannels(d, channels)
       /\ claimHistory' = LoadHistory(d, claimHistory)
  /\ initialized' = TRUE
  /\ loading' = [loading EXCEPT ![p] = FALSE]
  /\ UNCHANGED <<disk, sessions, now, pc, req, inflight, nEvents, ackMax, ackTimes>>
  /\ UNCHANGED <<signerVars, adviceVars>>

\* ---------------------------------------------------------------- helpers
\* a new request takes the first handler slot that is free
FreeSlot(p) == pc[p] = "idle" /\ \A q \in Procs : q < p => pc[q] # "idle"

\* the signatures a request for amount a can carry: one made for this
\* amount with either key, or the sender's signature of the amount below
ClaimSigs(c, a) == {sg \in Sigs : sg.chan = c /\
                      (sg.amt = a \/ (sg.amt = a - 1 /\ sg.key = SenderKey))}

\* the handler ends: the response is sent (a rejection, an error or a success)
Finish(p) ==
  /\ pc' = [pc EXCEPT ![p] = "idle"]
  /\ req' = [req EXCEPT ![p] = NoReq]

\* C30 mutant: validateClaim without its signature check
SignatureValidUnchecked(r) == TRUE

\* validateClaim step 1, run when validateClaim is entered with request r
SignatureValid(r) == VerifySignature(r.chan, r.amount, r.sig, r.vkey)

\* ---------------------------------------------------- POST /stream/validate
\* the handler up to its first use of the store.  With a receiver session the
\* claim goes to the session's StreamingValidator, which verifies with the
\* session's key and passes no channelInfo: validateClaimRate is called.
\* Without one, getChannelInfo is awaited (it touches no state of this model,
\* so its return is taken in the same step), validateAndStoreClaim is entered
\* with channelInfo and validateClaim checks the signature before its first
\* await; getChannelInfo throwing and a bad signature end the request here
ValidateBegin(p, c, a, sig, pk) ==
  /\ Quiescent
  /\ FreeSlot(p)
  /\ nEvents < MaxEvents
  /\ nEvents' = nEvents + 1
  /\ IF sessions[c] # "none"
       THEN /\ pc' = [pc EXCEPT ![p] = "v_rate"]
            /\ req' = [req EXCEPT ![p] = [chan |-> c, amount |-> a, sig |-> sig,
                                          vkey |-> sessions[c], info |-> FALSE, prev |-> 0,
                                          floor |-> ackMax[c]]]
       ELSE \/ UNCHANGED <<pc, req>>
            \/ /\ VerifySignature(c, a, sig, pk)
               /\ pc' = [pc EXCEPT ![p] = "v_read"]
               /\ req' = [req EXCEPT ![p] = [chan |-> c, amount |-> a, sig |-> sig,
                                             vkey |-> pk, info |-> TRUE, prev |-> 0,
                                             floor |-> ackMax[c]]]
  /\ UNCHANGED <<initialized, channels, claimHistory, disk, sessions, now,
                 inflight, loading, ackMax, ackTimes>>
  /\ UNCHANGED <<signerVars, adviceVars>>

\* validateStreamingClaim: validateClaimRate has read the recent claims; when
\* it passes, validateAndStoreClaim is entered as above
ValidateRate(p) ==
  /\ pc[p] = "v_rate"
  /\ StoreReady(p)
  /\ IF ValidateClaimRateResult(claimHistory[req[p].chan], now).valid
          /\ SignatureValid(req[p])
       THEN /\ pc' = [pc EXCEPT ![p] = "v_read"]
            /\ UNCHANGED req
       ELSE Finish(p)
  /\ UNCHANGED <<initialized, channels, claimHistory, disk, sessions, now,
                 inflight, loading, nEvents, ackMax, ackTimes>>
  /\ UNCHANGED <<signerVars, adviceVars>>

\* validateClaim steps 2 and 3: getLastValidAmount has returned
ValidateRead(p) ==
  /\ pc[p] = "v_read"
  /\ StoreReady(p)
  /\ LET previous == GetLastValidAmount(channels, req[p].chan)
     IN IF ValidateClaimResult(req[p], previous).valid
          THEN /\ pc' = [pc EXCEPT ![p] = "v_update"]
               /\ req' = [req EXCEPT ![p].prev = previous]
          ELSE Finish(p)
  /\ UNCHANGED <<initialized, channels, claimHistory, disk, sessions, now,
                 inflight, loading, nEvents, ackMax, ackTimes>>
  /\ UNCHANGED <<signerVars, adviceVars>>

\* updateChannel: the Map entry is set and persist() stringifies the Maps
\* and starts fs.writeFile
UpdateChannel(p) ==
  /\ pc[p] = "v_update"
  /\ StoreReady(p)
  /\ LET r == req[p]
         chs == [channels EXCEPT ![r.chan] =
                   UpdateChannelRecord(channels[r.chan], r.amount, r.sig, r.vkey)]
     IN /\ channels' = chs
        /\ inflight' = [inflight EXCEPT ![p] = Snapshot(chs, claimHistory)]
  /\ pc' = [pc EXCEPT ![p] = "v_write"]
  /\ UNCHANGED <<initialized, claimHistory, disk, sessions, now, req,
                 loading, nEvents, ackMax, ackTimes>>
  /\ UNCHANGED <<signerVars, adviceVars>>

\* updateChannel's writeFile succeeded: validateAndStoreClaim returns
\* { ...validationResult, stored: true }
UpdateChannelDone(p) ==
  /\ Quiescent
  /\ pc[p] = "v_write"
  /\ disk' = inflight[p]
  /\ inflight' = [inflight EXCEPT ![p] = NoFile]
  /\ ackMax' = [ackMax EXCEPT ![req[p].chan] = Max(@, req[p].amount)]
  /\ ackTimes' = [ackTimes EXCEPT ![req[p].chan] = LastAcks(Append(@, now))]
  /\ pc' = [pc EXCEPT ![p] = "v_hist"]
  /\ UNCHANGED <<initialized, channels, claimHistory, sessions, now, req,
                 loading, nEvents>>
  /\ UNCHANGED <<signerVars, adviceVars>>

\* updateChannel's writeFile failed: persist rethrows, validateAndStoreClaim
\* throws, the handler answers 500
UpdateChannelFailed(p) ==
  /\ Quiescent
  /\ pc[p] = "v_write"
  /\ inflight' = [inflight EXCEPT ![p] = NoFile]
  /\ Finish(p)
  /\ UNCHANGED <<initialized, channels, claimHistory, disk, sessions, now,
                 loading, nEvents, ackMax, ackTimes>>
  /\ UNCHANGED <<signerVars, adviceVars>>

\* the handler's addClaimToHistory: push, cap, persist
AddClaimToHistory(p) ==
  /\ pc[p] = "v_hist"
  /\ StoreReady(p)
  /\ LET r == req[p]
         entry == [amount |-> r.amount, signature |-> r.sig, timestamp |-> now]
         hist == [claimHistory EXCEPT ![r.chan] = PushHistory(@, entry)]
     IN /\ claimHistory' = hist
        /\ inflight' = [inflight EXCEPT ![p] = Snapshot(channels, hist)]
  /\ pc' = [pc EXCEPT ![p] = "v_hwrite"]
  /\ UNCHANGED <<initialized, channels, disk, sessions, now, req,
                 loading, nEvents, ackMax, ackTimes>>
  /\ UNCHANGED <<signerVars, adviceVars>>

\* addClaimToHistory's writeFile succeeded: 200
AddClaimToHistoryDone(p) ==
  /\ Quiescent
  /\ pc[p] = "v_hwrite"
  /\ disk' = inflight[p]
  /\ inflight' = [inflight EXCEPT ![p] = NoFile]
  /\ Finish(p)
  /\ UNCHANGED <<initialized, channels, claimHistory, sessions, now,
                 loading, nEvents, ackMax, ackTimes>>
  /\ UNCHANGED <<signerVars, adviceVars>>

\* addClaimToHistory's writeFile failed: 500
AddClaimToHistoryFailed(p) ==
  /\ Quiescent
  /\ pc[p] = "v_hwrite"
  /\ inflight' = [inflight EXCEPT ![p] = NoFile]
  /\ Finish(p)
  /\ UNCHANGED <<initialized, channels, claimHistory, disk, sessions, now,
                 loading, nEvents, ackMax, ackTimes>>
  /\ UNCHANGED <<signerVars, adviceVars>>

\* ------------------------------------------- POST /stream/start (receiver)
\* up to the await of getChannelInfo; 409 when the role already has a session
StartBegin(p, c, pk) ==
  /\ Quiescent
  /\ FreeSlot(p)
  /\ nEvents < MaxEvents
  /\ nEvents' = nEvents + 1
  /\ sessions[c] = "none"
  /\ pc' = [pc EXCEPT ![p] = "s_info"]
  /\ req' = [req EXCEPT ![p] = [NoReq EXCEPT !.chan = c, !.vkey = pk]]
  /\ UNCHANGED <<initialized, channels, claimHistory, disk, sessions, now,
                 inflight, loading, ackMax, ackTimes>>
  /\ UNCHANGED <<signerVars, adviceVars>>

\* the role already has a session: 409
StartConflict(p, c) ==
  /\ Quiescent
  /\ FreeSlot(p)
  /\ sessions[c] # "none"
  /\ UNCHANGED vars

\* getChannelInfo threw: 500
StartInfoFailed(p) ==
  /\ Quiescent
  /\ pc[p] = "s_info"
  /\ Finish(p)
  /\ UNCHANGED <<initialized, channels, claimHistory, disk, sessions, now,
                 inflight, loading, nEvents, ackMax, ackTimes>>
  /\ UNCHANGED <<signerVars, adviceVars>>

\* getChannelInfo returned: the session is registered, hasChannel is called
StartInfo(p) ==
  /\ Quiescent
  /\ pc[p] = "s_info"
  /\ sessions' = [sessions EXCEPT ![req[p].chan] = req[p].vkey]
  /\ pc' = [pc EXCEPT ![p] = "s_has"]
  /\ UNCHANGED <<initialized, channels, claimHistory, disk, now, req,
                 inflight, loading, nEvents, ackMax, ackTimes>>
  /\ UNCHANGED <<signerVars, adviceVars>>

\* hasChannel returned: `if (!exists)` decides whether initializeChannel runs
StartHas(p) ==
  /\ pc[p] = "s_has"
  /\ StoreReady(p)
  /\ IF HasChannel(channels, req[p].chan)
       THEN Finish(p)
       ELSE /\ pc' = [pc EXCEPT ![p] = "s_init"]
            /\ UNCHANGED req
  /\ UNCHANGED <<initialized, channels, claimHistory, disk, sessions, now,
                 inflight, loading, nEvents, ackMax, ackTimes>>
  /\ UNCHANGED <<signerVars, adviceVars>>

\* initializeChannel: both Map entries are set, then persist()
InitializeChannel(p) ==
  /\ pc[p] = "s_init"
  /\ StoreReady(p)
  /\ LET c == req[p].chan
         chs == [channels EXCEPT ![c] = InitializeChannelRecord(channels[c])]
         hist == [claimHistory EXCEPT ![c] = InitializeChannelHistory(claimHistory[c])]
     IN /\ channels' = chs
        /\ claimHistory' = hist
        /\ inflight' = [inflight EXCEPT ![p] = Snapshot(chs, hist)]
  /\ pc' = [pc EXCEPT ![p] = "s_write"]
  /\ UNCHANGED <<initialized, disk, sessions, now, req, loading, nEvents, ackMax, ackTimes>>
  /\ UNCHANGED <<signerVars, adviceVars>>

\* initializeChannel's writeFile succeeded: 200
InitializeChannelDone(p) ==
  /\ Quiescent
  /\ pc[p] = "s_write"
  /\ disk' = inflight[p]
  /\ inflight' = [inflight EXCEPT ![p] = NoFile]
  /\ Finish(p)
  /\ UNCHANGED <<initialized, channels, claimHistory, sessions, now,
                 loading, nEvents, ackMax, ackTimes>>
  /\ UNCHANGED <<signerVars, adviceVars>>

\* initializeChannel's writeFile failed: 500
InitializeChannelFailed(p) ==
  /\ Quiescent
  /\ pc[p] = "s_write"
  /\ inflight' = [inflight EXCEPT ![p] = NoFile]
  /\ Finish(p)
  /\ UNCHANGED <<initialized, channels, claimHistory, disk, sessions, now,
                 loading, nEvents, ackMax, ackTimes>>
  /\ UNCHANGED <<signerVars, adviceVars>>

\* ---------------------------------------------------- POST /stream/finalize
\* up to the call of store.getChannelData
FinalizeBegin(p, c) ==
  /\ Quiescent
  /\ FreeSlot(p)
  /\ nEvents < MaxEvents
  /\ nEvents' = nEvents + 1
  /\ pc' = [pc EXCEPT ![p] = "f_get"]
  /\ req' = [req EXCEPT ![p] = [NoReq EXCEPT !.chan = c]]
  /\ UNCHANGED <<initialized, channels, claimHistory, disk, sessions, now,
                 inflight, loading, ackMax, ackTimes>>
  /\ UNCHANGED <<signerVars, adviceVars>>

\* getChannelData returned: 404 without a record or when the record has no
\* lastValidAmount field (the string '0' that initializeChannel stores is
\* truthy), else claimChannel is called with the record's lastValidAmount,
\* lastSignature and publicKey
FinalizeGet(p) ==
  /\ pc[p] = "f_get"
  /\ StoreReady(p)
  /\ LET channelData == channels[req[p].chan]
     IN IF ~channelData.present \/ ~channelData.hasLastValidAmount
          THEN Finish(p)
          ELSE /\ pc' = [pc EXCEPT ![p] = "f_claim"]
               /\ req' = [req EXCEPT ![p].amount = channelData.lastValidAmount,
                                     ![p].sig = channelData.lastSignature,
                                     ![p].vkey = channelData.publicKey]
  /\ UNCHANGED <<initialized, channels, claimHistory, disk, sessions, now,
                 inflight, loading, nEvents, ackMax, ackTimes>>
  /\ UNCHANGED <<signerVars, adviceVars>>

\* claimChannel threw (the transaction failed or could not be submitted): 500
FinalizeClaimFailed(p) ==
  /\ Quiescent
  /\ pc[p] = "f_claim"
  /\ Finish(p)
  /\ UNCHANGED <<initialized, channels, claimHistory, disk, sessions, now,
                 inflight, loading, nEvents, ackMax, ackTimes>>
  /\ UNCHANGED <<signerVars, adviceVars>>

\* the ledger applies a PaymentChannelClaim only when it carries the channel's
\* key, a signature of that key for the claimed amount, and an amount within
\* the channel's capacity
CanSettle(r) ==
  /\ r.vkey = SenderKey
  /\ VerifySignature(r.chan, r.amount, r.sig, SenderKey)
  /\ r.amount <= Capacity

\* claimChannel returned (tesSUCCESS): store.updateFinalizedAmount is called
FinalizeClaimed(p) ==
  /\ Quiescent
  /\ pc[p] = "f_claim"
  /\ CanSettle(req[p])
  /\ pc' = [pc EXCEPT ![p] = "f_update"]
  /\ UNCHANGED <<initialized, channels, claimHistory, disk, sessions, now, req,
                 inflight, loading, nEvents, ackMax, ackTimes>>
  /\ UNCHANGED <<signerVars, adviceVars>>

\* updateFinalizedAmount: the record is changed and persist() starts its write
UpdateFinalizedAmount(p) ==
  /\ pc[p] = "f_update"
  /\ StoreReady(p)
  /\ LET r == req[p]
         chs == [channels EXCEPT ![r.chan] =
                   UpdateFinalizedRecord(channels[r.chan], r.amount, now)]
     IN /\ channels' = chs
        /\ inflight' = [inflight EXCEPT ![p] = Snapshot(chs, claimHistory)]
  /\ pc' = [pc EXCEPT ![p] = "f_write"]
  /\ UNCHANGED <<initialized, claimHistory, disk, sessions, now, req,
                 loading, nEvents, ackMax, ackTimes>>
  /\ UNCHANGED <<signerVars, adviceVars>>

\* updateFinalizedAmount's writeFile succeeded: 200
UpdateFinalizedAmountDone(p) ==
  /\ Quiescent
  /\ pc[p] = "f_write"
  /\ disk' = inflight[p]
  /\ inflight' = [inflight EXCEPT ![p] = NoFile]
  /\ Finish(p)
  /\ UNCHANGED <<initialized, channels, claimHistory, sessions, now,
                 loading, nEvents, ackMax, ackTimes>>
  /\ UNCHANGED <<signerVars, adviceVars>>

\* updateFinalizedAmount's writeFile failed: 500
UpdateFinalizedAmountFailed(p) ==
  /\ Quiescent
  /\ pc[p] = "f_write"
  /\ inflight' = [inflight EXCEPT ![p] = NoFile]
  /\ Finish(p)
  /\ UNCHANGED <<initialized, channels, claimHistory, disk, sessions, now,
                 loading, nEvents, ackMax, ackTimes>>
  /\ UNCHANGED <<signerVars, adviceVars>>

\* ------------------------------------------------------ GET /stream/status
\* up to the call of store.getChannelStats
StatusBegin(p, c) ==
  /\ Quiescent
  /\ FreeSlot(p)
  /\ nEvents < MaxEvents
  /\ nEvents' = nEvents + 1
  /\ pc' = [pc EXCEPT ![p] = "q_stats"]
  /\ req' = [req EXCEPT ![p] = [NoReq EXCEPT !.chan = c]]
  /\ UNCHANGED <<initialized, channels, claimHistory, disk, sessions, now,
                 inflight, loading, ackMax, ackTimes>>
  /\ UNCHANGED <<signerVars, adviceVars>>

\* getChannelStats returned: getChannelInfo is awaited
StatusStats(p) ==
  /\ pc[p] = "q_stats"
  /\ StoreReady(p)
  /\ pc' = [pc EXCEPT ![p] = "q_info"]
  /\ UNCHANGED <<initialized, channels, claimHistory, disk, sessions, now, req,
                 inflight, loading, nEvents, ackMax, ackTimes>>
  /\ UNCHANGED <<signerVars, adviceVars>>

\* getChannelInfo threw: 500
StatusInfoFailed(p) ==
  /\ Quiescent
  /\ pc[p] = "q_info"
  /\ Finish(p)
  /\ UNCHANGED <<initialized, channels, claimHistory, disk, sessions, now,
                 inflight, loading, nEvents, ackMax, ackTimes>>
  /\ UNCHANGED <<signerVars, adviceVars>>

\* getChannelInfo returned: shouldFinalizeClaim(channelId) is called and
\* calls store.getChannelData
StatusInfo(p) ==
  /\ Quiescent
  /\ pc[p] = "q_info"
  /\ pc' = [pc EXCEPT ![p] = "q_advice"]
  /\ UNCHANGED <<initialized, channels, claimHistory, disk, sessions, now, req,
                 inflight, loading, nEvents, ackMax, ackTimes>>
  /\ UNCHANGED <<signerVars, adviceVars>>

\* what shouldFinalizeClaim(channelId) works on: the record getChannelData
\* returns, the default options, Date.now()
AdviceInput(chs, c, t) ==
  [d |-> [present |-> chs[c].present, lastValidAmount |-> chs[c].lastValidAmount,
          lastFinalizedAmount |-> chs[c].lastFinalizedAmount,
          lastFinalizationTime |-> chs[c].lastFinalizationTime, createdAt |-> 0],
   minAmountToFinalize |-> DefaultMinAmountToFinalize,
   maxTimeSinceLastFinalization |-> DefaultMaxTimeSinceLastFinalization,
   now |-> t]

\* C24 mutant: a recommendation is acted on, the record marked finalized
StatusAdviceSettling(p) ==
  /\ pc[p] = "q_advice"
  /\ StoreReady(p)
  /\ channels' = [channels EXCEPT ![req[p].chan] =
                    UpdateFinalizedRecord(@, @.lastValidAmount, now)]
  /\ Finish(p)
  /\ UNCHANGED <<initialized, claimHistory, disk, sessions, now,
                 inflight, loading, nEvents, ackMax, ackTimes>>
  /\ UNCHANGED <<signerVars, adviceVars>>

\* getChannelData returned: shouldFinalizeClaim returns its recommendation
\* and the handler answers
StatusAdvice(p) ==
  /\ pc[p] = "q_advice"
  /\ StoreReady(p)
  /\ Finish(p)
  /\ UNCHANGED <<initialized, channels, claimHistory, disk, sessions, now,
                 inflight, loading, nEvents, ackMax, ackTimes>>
  /\ UNCHANGED <<signerVars, adviceVars>>

\* -------------------------------------------- POST /stream/stop (receiver)
StopReceiver(c) ==
  /\ Quiescent
  /\ sessions[c] # "none"
  /\ sessions' = [sessions EXCEPT ![c] = "none"]
  /\ UNCHANGED <<initialized, channels, claimHistory, disk, now, pc, req,
                 inflight, loading, nEvents, ackMax, ackTimes>>
  /\ UNCHANGED <<signerVars, adviceVars>>

\* ----------------------------------------------------------- environment
\* time passes
Tick(d) ==
  /\ Quiescent
  /\ now + d <= MaxNow
  /\ now' = now + d
  /\ UNCHANGED storeVars
  /\ UNCHANGED <<signerVars, adviceVars>>

\* what the file can hold after the process died: what it held, what a write
\* in flight was writing, or the unparsable prefix such a write left behind
AfterCrash == {disk} \cup {inflight[p] : p \in Writers}
                     \cup (IF Writers = {} THEN {} ELSE {TornFile})

\* the process dies and is started again: a new store, no sessions, no handlers
Crash ==
  /\ nEvents < MaxEvents
  /\ nEvents' = nEvents + 1
  /\ disk' \in AfterCrash
  /\ initialized' = FALSE
  /\ channels' = EmptyChannels
  /\ claimHistory' = EmptyHistory
  /\ sessions' = [c \in Channels |-> "none"]
  /\ pc' = [p \in Procs |-> "idle"]
  /\ req' = [p \in Procs |-> NoReq]
  /\ inflight' = [p \in Procs |-> NoFile]
  /\ loading' = [p \in Procs |-> FALSE]
  /\ UNCHANGED <<now, ackMax, ackTimes>>
  /\ UNCHANGED <<signerVars, adviceVars>>

\* the program's steps when its requests are about the channels CS
NextFor(CS) ==
  \/ \E p \in Procs : InitializeBegin(p)
  \/ \E p \in Procs : InitializeEnd(p)
  \/ \E p \in Procs, c \in CS, a \in Amounts, pk \in Keys :
       \E sig \in ClaimSigs(c, a) : ValidateBegin(p, c, a, sig, pk)
  \/ \E p \in Procs : ValidateRate(p)
  \/ \E p \in Procs : ValidateRead(p)
  \/ \E p \in Procs : UpdateChannel(p)
  \/ \E p \in Procs : UpdateChannelDone(p)
  \/ \E p \in Procs : UpdateChannelFailed(p)
  \/ \E p \in Procs : AddClaimToHistory(p)
  \/ \E p \in Procs : AddClaimToHistoryDone(p)
  \/ \E p \in Procs : AddClaimToHistoryFailed(p)
  \/ \E p \in Procs, c \in CS, pk \in Keys : StartBegin(p, c, pk)
  \/ \E p \in Procs, c \in CS : StartConflict(p, c)
  \/ \E p \in Procs : StartInfoFailed(p)
  \/ \E p \in Procs : StartInfo(p)
  \/ \E p \in Procs : StartHas(p)
  \/ \E p \in Procs : InitializeChannel(p)
  \/ \E p \in Procs : InitializeChannelDone(p)
  \/ \E p \in Procs : InitializeChannelFailed(p)
  \/ \E p \in Procs, c \in CS : FinalizeBegin(p, c)
  \/ \E p \in Procs : FinalizeGet(p)
  \/ \E p \in Procs : FinalizeClaimFailed(p)
  \/ \E p \in Procs : FinalizeClaimed(p)
  \/ \E p \in Procs : UpdateFinalizedAmount(p)
  \/ \E p \in Procs : UpdateFinalizedAmountDone(p)
  \/ \E p \in Procs : UpdateFinalizedAmountFailed(p)
  \/ \E p \in Procs, c \in CS : StatusBegin(p, c)
  \/ \E p \in Procs : StatusStats(p)
  \/ \E p \in Procs : StatusInfoFailed(p)
  \/ \E p \in Procs : StatusInfo(p)
  \/ \E p \in Procs : StatusAdvice(p)
  \/ \E c \in CS : StopReceiver(c)
  \/ \E d \in TickSteps : Tick(d)
  \/ Crash

Next == NextFor(RequestChannels)

Spec == Init /\ [][Next]_vars

\* -------------------------------- POST /stream/validate, malformed amount
\* a claim whose amount is a number with a fraction (a + 0.5), no session:
\* parseInt(amount) is a, so a signature for a verifies, and validateClaim
\* goes on to store.getLastValidAmount
ValidateBeginMalformed(p, c, a) ==
  /\ Quiescent
  /\ FreeSlot(p)
  /\ nEvents < MaxEvents
  /\ nEvents' = nEvents + 1
  /\ sessions[c] = "none"
  /\ pc' = [pc EXCEPT ![p] = "v_bad"]
  /\ req' = [req EXCEPT ![p] = [NoReq EXCEPT !.chan = c, !.amount = a,
                                             !.sig = [chan |-> c, amt |-> a, key |-> SenderKey],
                                             !.vkey = SenderKey, !.info = TRUE]]
  /\ UNCHANGED <<initialized, channels, claimHistory, disk, sessions, now,
                 inflight, loading, ackMax, ackTimes>>
  /\ UNCHANGED <<signerVars, adviceVars>>

\* getLastValidAmount returned: BigInt(amount) throws, the catch returns
\* { valid: false, reason: 'Validation error: ...' }, the handler answers 400
ValidateMalformed(p) ==
  /\ pc[p] = "v_bad"
  /\ StoreReady(p)
  /\ Finish(p)
  /\ UNCHANGED <<initialized, channels, claimHistory, disk, sessions, now,
                 inflight, loading, nEvents, ackMax, ackTimes>>
  /\ UNCHANGED <<signerVars, adviceVars>>

\* the program with such requests among the others
MalformedNext ==
  \/ Next
  \/ \E p \in Procs, c \in RequestChannels, a \in Amounts : ValidateBeginMalformed(p, c, a)
  \/ \E p \in Procs : ValidateMalformed(p)

MalformedSpec == Init /\ [][MalformedNext]_vars

\* the program restarted on the file of an earlier run
RestartInit ==
  /\ StoreStart(InitializedFile) /\ SignerNew(1) /\ AdviceNone /\ VerifyNone
  /\ UpdateNone /\ HistoryNew /\ ServiceNew

RestartSpec == RestartInit /\ [][Next]_vars

\* the program with requests about two channels
CrossNext == NextFor(Channels)

CrossSpec == Init /\ [][CrossNext]_vars

\* --------------------------------------------------------- StreamingSigner
\* start()
SignerStart ==
  /\ sgStart' = now
  /\ sgActive' = TRUE
  /\ sgClean' = FALSE
  /\ UNCHANGED <<sgRate, sgTotal, sgStopAmount, sgSigned, sgSignedAt, sgPrev, sgPrevAt,
                 sgHigh, now>>
  /\ UNCHANGED <<storeVars, adviceVars>>

\* stop()
SignerStop ==
  /\ sgActive
  /\ sgActive' = FALSE
  /\ sgStopAmount' = CurrentAmount
  /\ sgClean' = FALSE
  /\ UNCHANGED <<sgRate, sgStart, sgTotal, sgSigned, sgSignedAt, sgPrev, sgPrevAt,
                 sgHigh, now>>
  /\ UNCHANGED <<storeVars, adviceVars>>

\* this call of signCurrentClaim() and the one before it were made with no
\* other call on the signer between them, at one instant or both while stopped
SameInstantOrStopped ==
  sgSigned >= 0 /\ sgClean /\ (sgSignedAt = now \/ ~sgActive)

\* signCurrentClaim(): signClaim(wallet, channelId, getCurrentAmount())
SignCurrentClaim ==
  /\ sgSigned' = CurrentAmount
  /\ sgSignedAt' = now
  /\ sgClean' = TRUE
  /\ sgPrev' = IF SameInstantOrStopped THEN sgSigned ELSE -1
  /\ sgPrevAt' = IF SameInstantOrStopped THEN sgSignedAt ELSE 0
  /\ sgHigh' = IF CurrentAmount > sgHigh THEN CurrentAmount ELSE sgHigh
  /\ UNCHANGED <<sgRate, sgActive, sgStart, sgTotal, sgStopAmount, now>>
  /\ UNCHANGED <<storeVars, adviceVars>>

\* updateTotal(newTotal): a new base amount, accrual restarts from now; the
\* amount noted at the last stop() no longer says what the signer authorizes
SignerUpdateTotal(newTotal) ==
  /\ sgTotal' = newTotal
  /\ sgStart' = now
  /\ sgStopAmount' = -1
  /\ sgClean' = FALSE
  /\ sgHigh' = -1
  /\ UNCHANGED <<sgRate, sgActive, sgSigned, sgSignedAt, sgPrev, sgPrevAt, now>>
  /\ UNCHANGED <<storeVars, adviceVars>>

\* time passes for the sender
SignerTick(d) ==
  /\ now + d <= MaxSignerNow
  /\ now' = now + d
  /\ UNCHANGED storeVars
  /\ UNCHANGED <<signerVars, adviceVars>>

SignerNext ==
  \/ SignerStart
  \/ SignerStop
  \/ SignCurrentClaim
  \/ \E newTotal \in Totals : SignerUpdateTotal(newTotal)
  \/ \E d \in SignerTickSteps : SignerTick(d)

SignerSpec == SignerInit /\ [][SignerNext]_vars

\* ------------------------------------------- ChannelStore, called directly
\* the Maps a store method works on once its `await this.initialize()` has
\* returned: the ones in memory, or those loaded from the file on first use
StoreChannels == IF initialized THEN channels ELSE LoadChannels(disk, channels)
StoreHistory == IF initialized THEN claimHistory ELSE LoadHistory(disk, claimHistory)

\* persist() as seen by a caller who awaits it: the file holds the snapshot
\* when writeFile succeeded (ok), and what it held when it failed
Persisted(chs, hist, ok) == IF ok THEN Snapshot(chs, hist) ELSE disk

\* await store.updateChannel(c, { lastValidAmount, lastSignature, publicKey })
CallUpdateChannel(c, a, pk, ok) ==
  /\ nEvents < MaxEvents
  /\ nEvents' = nEvents + 1
  /\ LET sig == [chan |-> c, amt |-> a, key |-> pk]
         chs == [StoreChannels EXCEPT ![c] = UpdateChannelRecord(@, a, sig, pk)]
     IN /\ channels' = chs
        /\ claimHistory' = StoreHistory
        /\ disk' = Persisted(chs, StoreHistory, ok)
  /\ initialized' = TRUE
  /\ UNCHANGED <<sessions, now, pc, req, inflight, loading, ackMax, ackTimes>>
  /\ UNCHANGED <<signerVars, adviceVars>>

\* await store.initializeChannel(c, metadata)
CallInitializeChannel(c, ok) ==
  /\ nEvents < MaxEvents
  /\ nEvents' = nEvents + 1
  /\ LET chs == [StoreChannels EXCEPT ![c] = InitializeChannelRecord(@)]
         hist == [StoreHistory EXCEPT ![c] = InitializeChannelHistory(@)]
     IN /\ channels' = chs
        /\ claimHistory' = hist
        /\ disk' = Persisted(chs, hist, ok)
  /\ initialized' = TRUE
  /\ UNCHANGED <<sessions, now, pc, req, inflight, loading, ackMax, ackTimes>>
  /\ UNCHANGED <<signerVars, adviceVars>>

\* await store.addClaimToHistory(c, { amount, signature, publicKey })
CallAddClaimToHistory(c, a, ok) ==
  /\ nEvents < MaxEvents
  /\ nEvents' = nEvents + 1
  /\ LET entry == [amount |-> a, signature |-> [chan |-> c, amt |-> a, key |-> SenderKey],
                   timestamp |-> now]
         hist == [StoreHistory EXCEPT ![c] = PushHistory(@, entry)]
     IN /\ claimHistory' = hist
        /\ channels' = StoreChannels
        /\ disk' = Persisted(StoreChannels, hist, ok)
  /\ initialized' = TRUE
  /\ UNCHANGED <<sessions, now, pc, req, inflight, loading, ackMax, ackTimes>>
  /\ UNCHANGED <<signerVars, adviceVars>>

\* the process is started again: a new ChannelStore over the same file
Restart ==
  /\ initialized
  /\ initialized' = FALSE
  /\ channels' = EmptyChannels
  /\ claimHistory' = EmptyHistory
  /\ UNCHANGED <<disk, sessions, now, pc, req, inflight, loading, nEvents, ackMax, ackTimes>>
  /\ UNCHANGED <<signerVars, adviceVars>>

StoreNext ==
  \/ \E c \in RequestChannels, a \in Amounts, pk \in Keys, ok \in BOOLEAN :
       CallUpdateChannel(c, a, pk, ok)
  \/ \E c \in RequestChannels, ok \in BOOLEAN : CallInitializeChannel(c, ok)
  \/ \E c \in RequestChannels, a \in Amounts, ok \in BOOLEAN : CallAddClaimToHistory(c, a, ok)
  \/ Restart

StoreSpec == Init /\ [][StoreNext]_vars

\* ------------------------------------------------------ shouldFinalizeClaim
\* the call returns
Advise ==
  /\ ~sfOut.evaluated
  /\ sfOut' = ShouldFinalizeClaim(sfIn)
  /\ UNCHANGED <<sfIn, now, vfIn, vfOut, ucIn, ucOut, hcHist, hcCalls, serviceVars>>
  /\ UNCHANGED <<storeVars, signerVars>>

AdviceNext == Advise

AdviceSpec == AdviceInit /\ [][AdviceNext]_vars

\* ------------------------------------------------- signClaim, validateClaim
\* signClaim returns its claim or throws
SignClaimCall ==
  /\ vfOut.stage = "new"
  /\ \E sig \in SignClaim(vfIn.copy, vfIn.wallet, vfIn.chan, vfIn.amount) :
       vfOut' = [vfOut EXCEPT !.stage = IF sig.form = "threw" THEN "threw" ELSE "signed",
                              !.sig = sig]
  /\ UNCHANGED <<vfIn, now, sfIn, sfOut, ucIn, ucOut, hcHist, hcCalls, serviceVars>>
  /\ UNCHANGED <<storeVars, signerVars>>

\* validateClaim runs its signature check on what it is given
SignatureCheckCall ==
  /\ vfOut.stage = "signed"
  /\ vfOut' = [vfOut EXCEPT
                 !.stage = "checked",
                 !.accepted = SignatureCheck(vfIn.vchan, vfIn.vamount,
                                             IF vfIn.tamper THEN Tampered(vfOut.sig)
                                                            ELSE vfOut.sig,
                                             vfIn.vkey)]
  /\ UNCHANGED <<vfIn, now, sfIn, sfOut, ucIn, ucOut, hcHist, hcCalls, serviceVars>>
  /\ UNCHANGED <<storeVars, signerVars>>

VerifyNext == SignClaimCall \/ SignatureCheckCall

VerifySpec == VerifyInit /\ [][VerifyNext]_vars

\* ------------------------------------------------------------ updateChannel
\* the record is built and put into the Map
UpdateChannelCall ==
  /\ ~ucOut.done
  /\ ucOut' = [done |-> TRUE, record |-> Updated(ucIn.existing, ucIn.data, ucIn.now)]
  /\ UNCHANGED <<ucIn, now, sfIn, sfOut, vfIn, vfOut, hcHist, hcCalls, serviceVars>>
  /\ UNCHANGED <<storeVars, signerVars>>

UpdateNext == UpdateChannelCall

UpdateSpec == UpdateInit /\ [][UpdateNext]_vars

\* -------------------------------------------------------- addClaimToHistory
\* the claim of the n-th call: amounts of stored claims are all different
HistoryClaim(n) ==
  [amount |-> n, signature |-> [chan |-> "c1", amt |-> n, key |-> SenderKey]]

\* { ...claim, timestamp: Date.now() }
HistoryEntry(claim, t) ==
  [amount |-> claim.amount, timestamp |-> t, signature |-> claim.signature]

\* one call of addClaimToHistory on the channel: push, shift, set
AddClaimToHistoryCall ==
  /\ hcCalls < MaxHistoryCalls
  /\ hcCalls' = hcCalls + 1
  /\ hcHist' = PushHistory(hcHist, HistoryEntry(HistoryClaim(hcCalls + 1), now))
  /\ UNCHANGED <<sfIn, sfOut, vfIn, vfOut, ucIn, ucOut, now, serviceVars>>
  /\ UNCHANGED <<storeVars, signerVars>>

HistoryNext == AddClaimToHistoryCall

HistorySpec == Init /\ [][HistoryNext]_vars

\* ------------------------------------------------- RLUSD direct payments
\* startStream: the session is stored with paymentsCompleted 0
RlusdStartStream(count) ==
  /\ rlCount = 0
  /\ rlCount' = count
  /\ rlActive' = TRUE
  /\ rlCompleted' = 0
  /\ UNCHANGED <<rlHistory, rlPc, rlPaid>>
  /\ UNCHANGED paymentRest

\* executePayment up to its await: 404 without an active session, 400 when
\* the stream is complete, else executeRLUSDPayment is called
RlusdExecuteBegin(p) ==
  /\ rlPc[p] = "idle"
  /\ rlActive
  /\ rlCompleted < rlCount
  /\ rlPc' = [rlPc EXCEPT ![p] = "paying"]
  /\ UNCHANGED <<rlCount, rlActive, rlCompleted, rlHistory, rlPaid>>
  /\ UNCHANGED paymentRest

\* executeRLUSDPayment returned success: paymentsCompleted++, and when
\* remaining === 0 the session is copied to paymentHistory and deleted
RlusdExecutePaid(p) ==
  /\ rlPc[p] = "paying"
  /\ rlPaid' = rlPaid + 1
  /\ rlCompleted' = rlCompleted + 1
  /\ rlHistory' = IF rlCount - rlCompleted' = 0 THEN rlCompleted' ELSE rlHistory
  /\ rlActive' = IF rlCount - rlCompleted' = 0 THEN FALSE ELSE rlActive
  /\ rlPc' = [rlPc EXCEPT ![p] = "idle"]
  /\ UNCHANGED rlCount
  /\ UNCHANGED paymentRest

\* executeRLUSDPayment returned success: false, or threw: 500
RlusdExecuteFailed(p) ==
  /\ rlPc[p] = "paying"
  /\ rlPc' = [rlPc EXCEPT ![p] = "idle"]
  /\ UNCHANGED <<rlCount, rlActive, rlCompleted, rlHistory, rlPaid>>
  /\ UNCHANGED paymentRest

\* stopStream: the session is copied to paymentHistory and deleted
RlusdStopStream ==
  /\ rlActive
  /\ rlHistory' = rlCompleted
  /\ rlActive' = FALSE
  /\ UNCHANGED <<rlCount, rlCompleted, rlPc, rlPaid>>
  /\ UNCHANGED paymentRest

PaymentNext ==
  \/ \E count \in PaymentCounts : RlusdStartStream(count)
  \/ \E p \in PayProcs : RlusdExecuteBegin(p)
  \/ \E p \in PayProcs : RlusdExecutePaid(p)
  \/ \E p \in PayProcs : RlusdExecuteFailed(p)
  \/ RlusdStopStream

PaymentSpec == Init /\ [][PaymentNext]_vars

\* ---------------------------------------------------------- auto-execution
\* stopAutoExecution(sessionId): the timer of the entry is cleared, the entry
\* deleted; nothing happens without an entry
StopAutoExecutionRunning(running, registered) == running \ {registered}

\* POST /start: the handler's startStream creates the session (409 when one is
\* active, and then no sessionId comes back and the route throws), then
\* startAutoExecution: setInterval, activeStreams.set(sessionId, { intervalId })
TimerStart ==
  /\ ~tmSession
  /\ tmCreated < MaxTimers
  /\ tmSession' = TRUE
  /\ tmCreated' = tmCreated + 1
  /\ tmRunning' = tmRunning \cup {tmCreated + 1}
  /\ tmRegistered' = tmCreated + 1
  /\ UNCHANGED tmDue
  /\ UNCHANGED timerRest

\* the duration of timer t's stream elapses
TimerElapse(t) ==
  /\ t \in tmRunning
  /\ t \notin tmDue
  /\ tmDue' = tmDue \cup {t}
  /\ UNCHANGED <<tmSession, tmCreated, tmRunning, tmRegistered>>
  /\ UNCHANGED timerRest

\* timer t fires: the handler is called (the payment may complete the session,
\* which the handler then deletes), and when the duration has elapsed
\* stopAutoExecution(sessionId) is called
TimerFire(t, completes) ==
  /\ t \in tmRunning
  /\ tmSession' = (tmSession /\ ~completes)
  /\ IF t \in tmDue
       THEN /\ tmRunning' = StopAutoExecutionRunning(tmRunning, tmRegistered)
            /\ tmRegistered' = 0
       ELSE UNCHANGED <<tmRunning, tmRegistered>>
  /\ UNCHANGED <<tmCreated, tmDue>>
  /\ UNCHANGED timerRest

\* POST /stop: stopAutoExecution(sessionId), then the handler's stopStream
TimerStop ==
  /\ tmRunning' = StopAutoExecutionRunning(tmRunning, tmRegistered)
  /\ tmRegistered' = 0
  /\ tmSession' = FALSE
  /\ UNCHANGED <<tmCreated, tmDue>>
  /\ UNCHANGED timerRest

TimerNext ==
  \/ TimerStart
  \/ \E t \in Timers : TimerElapse(t)
  \/ \E t \in Timers, completes \in BOOLEAN : TimerFire(t, completes)
  \/ TimerStop

TimerSpec == Init /\ [][TimerNext]_vars

\* -------------------------------------------------------------- XRPLClient
\* time passes in ticks of half a connection timeout
CxTickMs == ConnectionTimeout \div 2

\* the ticks a delay of d ms lasts
CxTicks(d) == (d + CxTickMs - 1) \div CxTickMs

\* Math.min(this.reconnectDelay * 1.5, 30000), in whole ms as setTimeout takes it
NextReconnectDelay(d) ==
  IF (d * 3) \div 2 < MaxReconnectDelay THEN (d * 3) \div 2 ELSE MaxReconnectDelay

\* connect() is entered by call p: the connected client is returned, or the
\* attempt in progress is waited for, or isConnecting is set, a new client is
\* made and client.connect() is awaited
CxEnter(p) ==
  IF cxConnected
    THEN /\ cxPc' = [cxPc EXCEPT ![p] = "returned"]
         /\ cxAge' = [cxAge EXCEPT ![p] = 0]
         /\ UNCHANGED cxIsConnecting
    ELSE IF cxIsConnecting
      THEN /\ cxPc' = [cxPc EXCEPT ![p] = "wait"]
           /\ cxAge' = [cxAge EXCEPT ![p] = 0]
           /\ UNCHANGED cxIsConnecting
      ELSE /\ cxPc' = [cxPc EXCEPT ![p] = "attempt"]
           /\ cxAge' = [cxAge EXCEPT ![p] = 0]
           /\ cxIsConnecting' = TRUE

\* a caller calls connect()
CxCall(p) ==
  /\ cxPc[p] = "idle"
  /\ cxCalls < MaxConnectCalls
  /\ cxCalls' = cxCalls + 1
  /\ cxRetries' = [cxRetries EXCEPT ![p] = 0]
  /\ cxAllFailed' = [cxAllFailed EXCEPT ![p] = TRUE]
  /\ CxEnter(p)
  /\ UNCHANGED <<cxConnected, cxAttempts, cxDelay>>
  /\ UNCHANGED clientRest

\* C38 mutant: a successful connection that leaves reconnectAttempts as it is
CxAttemptOkCountKept(p) ==
  /\ cxPc[p] = "attempt"
  /\ cxConnected' = TRUE
  /\ UNCHANGED cxAttempts
  /\ cxIsConnecting' = FALSE
  /\ cxPc' = [cxPc EXCEPT ![p] = "returned"]
  /\ cxAge' = [cxAge EXCEPT ![p] = 0]
  /\ cxAllFailed' = [q \in CxProcs |-> FALSE]
  /\ UNCHANGED <<cxDelay, cxRetries, cxCalls>>
  /\ UNCHANGED clientRest

\* client.connect() resolved: reconnectAttempts = 0, isConnecting = false
CxAttemptOk(p) ==
  /\ cxPc[p] = "attempt"
  /\ cxConnected' = TRUE
  /\ cxAttempts' = 0
  /\ cxIsConnecting' = FALSE
  /\ cxPc' = [cxPc EXCEPT ![p] = "returned"]
  /\ cxAge' = [cxAge EXCEPT ![p] = 0]
  /\ cxAllFailed' = [q \in CxProcs |-> FALSE]
  /\ UNCHANGED <<cxDelay, cxRetries, cxCalls>>
  /\ UNCHANGED clientRest

\* client.connect() rejected: isConnecting = false; with attempts left
\* reconnectAttempts++ and the delay is awaited, else the call throws
CxAttemptFailed(p) ==
  /\ cxPc[p] = "attempt"
  /\ cxIsConnecting' = FALSE
  /\ IF cxAttempts < MaxReconnectAttempts
       THEN /\ cxAttempts' = cxAttempts + 1
            /\ cxPc' = [cxPc EXCEPT ![p] = "backoff"]
            /\ cxAge' = [cxAge EXCEPT ![p] = CxTicks(cxDelay)]
       ELSE /\ cxPc' = [cxPc EXCEPT ![p] = "threw"]
            /\ cxAge' = [cxAge EXCEPT ![p] = 0]
            /\ UNCHANGED cxAttempts
  /\ UNCHANGED <<cxConnected, cxDelay, cxRetries, cxAllFailed, cxCalls>>
  /\ UNCHANGED clientRest

\* the delay is over: the next delay is set and connect() is entered again
CxRetry(p) ==
  /\ cxPc[p] = "backoff"
  /\ cxAge[p] = 0
  /\ cxDelay' = NextReconnectDelay(cxDelay)
  /\ cxRetries' = [cxRetries EXCEPT ![p] = @ + 1]
  /\ CxEnter(p)
  /\ UNCHANGED <<cxConnected, cxAttempts, cxAllFailed, cxCalls>>
  /\ UNCHANGED clientRest

\* waitForConnection: a poll finds isConnecting false: the client is returned
\* when it is connected, else 'Connection failed' is thrown
CxWaitOver(p) ==
  /\ cxPc[p] = "wait"
  /\ ~cxIsConnecting
  /\ cxPc' = [cxPc EXCEPT ![p] = IF cxConnected THEN "returned" ELSE "threw"]
  /\ cxAge' = [cxAge EXCEPT ![p] = 0]
  /\ UNCHANGED <<cxConnected, cxIsConnecting, cxAttempts, cxDelay, cxRetries, cxAllFailed, cxCalls>>
  /\ UNCHANGED clientRest

\* waitForConnection: a poll finds isConnecting true after more than the
\* timeout: 'Connection timeout' is thrown
CxWaitTimeout(p) ==
  /\ cxPc[p] = "wait"
  /\ cxIsConnecting
  /\ cxAge[p] * CxTickMs > WaitTimeout
  /\ cxPc' = [cxPc EXCEPT ![p] = "timeout"]
  /\ cxAge' = [cxAge EXCEPT ![p] = 0]
  /\ UNCHANGED <<cxConnected, cxIsConnecting, cxAttempts, cxDelay, cxRetries, cxAllFailed, cxCalls>>
  /\ UNCHANGED clientRest

\* the caller has its answer
CxDone(p) ==
  /\ cxPc[p] \in {"returned", "threw", "timeout"}
  /\ cxPc' = [cxPc EXCEPT ![p] = "idle"]
  /\ UNCHANGED <<cxConnected, cxIsConnecting, cxAttempts, cxDelay, cxAge, cxRetries, cxAllFailed, cxCalls>>
  /\ UNCHANGED clientRest

\* the connection is lost
CxDisconnected ==
  /\ cxConnected
  /\ cxConnected' = FALSE
  /\ UNCHANGED <<cxIsConnecting, cxAttempts, cxDelay, cxPc, cxAge, cxRetries, cxAllFailed, cxCalls>>
  /\ UNCHANGED clientRest

\* a tick passes: not before a poll that is due has been made (polls are
\* 100 ms apart), a delay that is over has ended, and an attempt that has
\* lasted the connection timeout has failed
CxTick ==
  /\ \A p \in CxProcs :
       /\ cxPc[p] = "wait" => (cxIsConnecting /\ cxAge[p] * CxTickMs <= WaitTimeout)
       /\ cxPc[p] = "backoff" => cxAge[p] > 0
       /\ cxPc[p] = "attempt" => (cxAge[p] + 1) * CxTickMs <= ConnectionTimeout
  /\ \E p \in CxProcs : cxPc[p] \in {"wait", "backoff", "attempt"}
  /\ cxAge' = [p \in CxProcs |->
                 IF cxPc[p] = "backoff" THEN cxAge[p] - 1
                 ELSE IF cxPc[p] \in {"wait", "attempt"} THEN cxAge[p] + 1
                 ELSE cxAge[p]]
  /\ UNCHANGED <<cxConnected, cxIsConnecting, cxAttempts, cxDelay, cxPc, cxRetries, cxAllFailed, cxCalls>>
  /\ UNCHANGED clientRest

ClientNext ==
  \/ \E p \in CxProcs : CxCall(p)
  \/ \E p \in CxProcs : CxAttemptOk(p)
  \/ \E p \in CxProcs : CxAttemptFailed(p)
  \/ \E p \in CxProcs : CxRetry(p)
  \/ \E p \in CxProcs : CxWaitOver(p)
  \/ \E p \in CxProcs : CxWaitTimeout(p)
  \/ \E p \in CxProcs : CxDone(p)
  \/ CxDisconnected
  \/ CxTick

ClientSpec == Init /\ [][ClientNext]_vars

\* ------------------------------------------------------- contracts registry
Providers == {"system", "alice", "Bob"}
RequiredFields == {"currency", "displayName", "description", "category"}
ImmutableFields == {"contractId", "providerId", "createdAt"}

\* the contractData of POST /contracts: complete with and without a
\* contractId, and without displayName or ratePerSecond
ContractDataInputs ==
  { [currency |-> "XRP", displayName |-> "a", description |-> "d",
     category |-> "media", ratePerSecond |-> "10"],
    [currency |-> "XRP", displayName |-> "a", description |-> "d",
     category |-> "media", ratePerSecond |-> "10", contractId |-> "k1"],
    [currency |-> "XRP", displayName |-> "b", description |-> "d",
     category |-> "media", ratePerSecond |-> "10",
     contractId |-> "music-stream"],
    [currency |-> "XRP", description |-> "d", category |-> "media",
     ratePerSecond |-> "10"],
    [currency |-> "XRP", displayName |-> "a", description |-> "d",
     category |-> "media"] }

\* the updates of PUT /contracts/:contractId: a JSON object, so a key is
\* absent or holds a value
ContractUpdates ==
  { [displayName |-> "b"],
    [status |-> "inactive", tags |-> "t"],
    [providerId |-> "Bob"],
    [contractId |-> "k9", createdAt |-> 99],
    [contractId |-> "k9", providerId |-> "alice", createdAt |-> 99,
     displayName |-> "b"] }

\* the contractIds a request can name
RequestIds == DefaultIds \cup {"k1", "alice-media-0", "bob-media-1"}

\* toLowerCase().replace(/[^a-z0-9-]/g, '-') of a providerId
Normalised(providerId) == IF providerId = "Bob" THEN "bob" ELSE providerId

\* contractData.contractId || `${providerId}-${category}-${Date.now()}`
NewContractId(contractData, providerId) ==
  IF "contractId" \in DOMAIN contractData
    THEN contractData.contractId
    ELSE Normalised(providerId) \o "-" \o contractData.category \o "-" \o ToString(rgNow)

\* the required and the currency-specific fields are there
ContractDataValid(contractData) ==
  /\ RequiredFields \subseteq DOMAIN contractData
  /\ contractData.currency = "XRP" => "ratePerSecond" \in DOMAIN contractData

\* the contract createContract stores
NewContract(contractId, contractData, providerId) ==
  [contractId |-> contractId, providerId |-> providerId,
   providerAddress |-> "null", currency |-> contractData.currency,
   displayName |-> contractData.displayName,
   description |-> contractData.description,
   category |-> contractData.category,
   ratePerSecond |-> contractData.ratePerSecond,
   createdAt |-> rgNow, updatedAt |-> rgNow, status |-> "active"]

\* the registry call made and its outcome
RegistryCalled(op, contractId, providerId, result) ==
  /\ rgOps < MaxRegistryOps
  /\ rgOps' = rgOps + 1
  /\ rgLast' = [op |-> op, contractId |-> contractId, providerId |-> providerId,
                result |-> result]
  /\ UNCHANGED rgNow
  /\ UNCHANGED registryRest

\* createContract(contractData, providerId)
CreateContract(contractData, providerId) ==
  IF ~ContractDataValid(contractData)
    THEN /\ RegistryCalled("create", "none", providerId, "Missing")
         /\ UNCHANGED registry
    ELSE LET contractId == NewContractId(contractData, providerId) IN
      IF contractId \in DOMAIN registry
        THEN /\ RegistryCalled("create", contractId, providerId, "Exists")
             /\ UNCHANGED registry
        ELSE /\ RegistryCalled("create", contractId, providerId, "ok")
             /\ registry' = [id \in DOMAIN registry \cup {contractId} |->
                               IF id = contractId
                                 THEN NewContract(contractId, contractData, providerId)
                                 ELSE registry[id]]

\* C39 mutant: updates taken as they are
AllUpdates(updates) == updates

\* the updates without the immutable fields
MutableUpdates(updates) ==
  [f \in DOMAIN updates \ ImmutableFields |-> updates[f]]

\* Object.assign(contract, updates, { updatedAt: Date.now() })
Assigned(contract, updates) ==
  [f \in DOMAIN contract \cup DOMAIN updates \cup {"updatedAt"} |->
     IF f = "updatedAt" THEN rgNow
     ELSE IF f \in DOMAIN updates THEN updates[f]
     ELSE contract[f]]

\* contract.providerId !== providerId && providerId !== 'system'
Unauthorized(contract, providerId) ==
  contract.providerId # providerId /\ providerId # "system"

\* updateContract(contractId, updates, providerId)
UpdateContract(contractId, updates, providerId) ==
  IF contractId \notin DOMAIN registry
    THEN /\ RegistryCalled("update", contractId, providerId, "NotFound")
         /\ UNCHANGED registry
    ELSE IF Unauthorized(registry[contractId], providerId)
      THEN /\ RegistryCalled("update", contractId, providerId, "Unauthorized")
           /\ UNCHANGED registry
      ELSE /\ RegistryCalled("update", contractId, providerId, "ok")
           /\ registry' = [registry EXCEPT ![contractId] =
                             Assigned(@, MutableUpdates(updates))]

\* deleteContract(contractId, providerId)
DeleteContract(contractId, providerId) ==
  IF contractId \notin DOMAIN registry
    THEN /\ RegistryCalled("delete", contractId, providerId, "NotFound")
         /\ UNCHANGED registry
    ELSE IF Unauthorized(registry[contractId], providerId)
      THEN /\ RegistryCalled("delete", contractId, providerId, "Unauthorized")
           /\ UNCHANGED registry
      ELSE /\ RegistryCalled("delete", contractId, providerId, "ok")
           /\ registry' = [id \in DOMAIN registry \ {contractId} |-> registry[id]]

\* a millisecond passes
RegistryTick ==
  /\ rgNow < MaxRegistryNow
  /\ rgNow' = rgNow + 1
  /\ UNCHANGED <<registry, rgLast, rgOps>>
  /\ UNCHANGED registryRest

RegistryNext ==
  \/ \E d \in ContractDataInputs, p \in Providers : CreateContract(d, p)
  \/ \E id \in RequestIds, u \in ContractUpdates, p \in Providers :
       UpdateContract(id, u, p)
  \/ \E id \in RequestIds, p \in Providers : DeleteContract(id, p)
  \/ RegistryTick

RegistrySpec == Init /\ [][RegistryNext]_vars

\* ================================================================== claims
\* the step in which validateAndStoreClaim returns stored: true in handler p
AckStep(p) == pc[p] = "v_write" /\ pc'[p] = "v_hist"

\* C1: for every channel the amounts of the accepted claims are strictly
\* increasing: a claim is never acknowledged as accepted with an amount equal
\* to or lower than that of a claim acknowledged before it
C1_AcceptedStrictlyIncreasing ==
  [][\A p \in Procs : AckStep(p) => req[p].amount > ackMax[req[p].chan]]_vars

\* the handler positions after validateAndStoreClaim has returned stored: true
Acked == {"v_hist", "v_hwrite"}

\* C2: overlapping validations of one channel are serialized: two claims of a
\* channel are never both accepted after reading the same lastValidAmount,
\* and no step of the running process lowers a channel's lastValidAmount
C2_ValidationsSerialized ==
  [][/\ \A p, q \in Procs :
          (p # q /\ pc'[p] \in Acked /\ pc'[q] \in Acked
             /\ req'[p].chan = req'[q].chan) => req'[p].prev # req'[q].prev
     /\ (nEvents' = nEvents) =>
          \A c \in Channels :
            GetLastValidAmount(channels', c) >= GetLastValidAmount(channels, c)]_vars

\* C3: a validly signed claim that arrives after an amount A was accepted for
\* its channel and whose amount is A or lower is rejected by the monotonicity
\* check, as stale, with a previous amount of at least A reported
C3_ReplayRejected ==
  [][\A p \in Procs :
       (pc[p] = "v_read" /\ pc'[p] # "v_read" /\ nEvents' = nEvents
          /\ req[p].amount <= req[p].floor) =>
         LET res == ValidateClaimResult(req[p], GetLastValidAmount(channels, req[p].chan))
         IN /\ ~res.valid
            /\ res.reason = "Amount must be greater than previous claim"
            /\ res.previousAmount >= req[p].floor]_vars

\* C4: the capacity of the channel is known on both validate paths, and in
\* every reachable state the lastValidAmount of a channel is at most it
C4_WithinCapacity ==
  \A c \in Channels : GetLastValidAmount(channels, c) <= Capacity

\* C5: when the write of updateChannel fails, the handler answers with an
\* error and the claim's amount is not the channel's lastValidAmount
C5_FailedWriteAborts ==
  [][\A p \in Procs :
       (pc[p] = "v_write" /\ pc'[p] = "idle" /\ nEvents' = nEvents) =>
         GetLastValidAmount(channels', req[p].chan) # req[p].amount]_vars

\* C6: when a started process has loaded the store file, the lastValidAmount
\* of every channel is at least every amount acknowledged as accepted before
C6_ReloadKeepsAcknowledged ==
  [][(~initialized /\ initialized') =>
       \A c \in Channels : GetLastValidAmount(channels', c) >= ackMax[c]]_vars

\* C7: a claim is acknowledged as accepted only in the step that completes a
\* write of the store file, and the snapshot that write has put in the file
\* holds the claim's amount as the lastValidAmount of its channel
C7_AckAfterFlush ==
  [][\A p \in Procs :
       AckStep(p) =>
         /\ disk' = inflight[p]
         /\ disk'.kind = "ok"
         /\ disk'.channels[req[p].chan].lastValidAmount = req[p].amount]_vars

\* C7 witness: an acknowledged claim of a channel that already had a record,
\* its handler about to go on to the history, the file holding its amount
C7_Witness ==
  \E p \in Procs :
    /\ pc[p] = "v_hist"
    /\ req[p].amount = 2
    /\ disk.kind = "ok"
    /\ disk.channels[req[p].chan].lastValidAmount = req[p].amount

\* C8: initializeChannel called for a channel the store already holds
\* changes neither its record nor its claim history
C8_InitializeChannelNoOp ==
  [][\A c \in Channels, ok \in BOOLEAN :
       (CallInitializeChannel(c, ok) /\ HasChannel(StoreChannels, c)) =>
         /\ channels'[c] = StoreChannels[c]
         /\ claimHistory'[c] = StoreHistory[c]]_vars

\* C9: a claim that goes through the session's rate limiter is never accepted
\* when MaxClaimsPerMinute claims of its channel were accepted within the
\* trailing RateWindowMs
C9_RateLimited ==
  [][\A p \in Procs :
       (AckStep(p) /\ ~req[p].info) =>
         ~ /\ Len(ackTimes[req[p].chan]) = MaxClaimsPerMinute
           /\ Head(ackTimes[req[p].chan]) >= now - RateWindowMs]_vars

\* C10: while the signer is stopped, getCurrentAmount returns the amount that
\* was authorized when stop() was called
C10_FrozenAtStop ==
  (~sgActive /\ sgStopAmount >= 0) => CurrentAmount = sgStopAmount

\* C11: a session that was stopped at amount X and started again authorizes
\* X plus the rate times the whole seconds elapsed since that start
C11_ResumesFromStopAmount ==
  (sgActive /\ sgStopAmount >= 0) =>
    CurrentAmount = sgStopAmount + sgRate * ((now - sgStart) \div 1000)

\* amount a is the base plus the rate times the whole seconds in ms
\* milliseconds: a multiple of the rate, at most rate * ms / 1000 and within
\* one rate of it
TruncatedAccrual(a, base, rate, ms) ==
  /\ (a - base) % rate = 0
  /\ (a - base) * 1000 <= rate * ms
  /\ rate * ms < (a - base + rate) * 1000

\* C12: while the session is streaming, the amount getCurrentAmount returns,
\* and with it the amount of a claim signed now, is the base amount plus the
\* rate times the whole seconds elapsed since the start, partial seconds
\* truncated
C12_TruncatedAccrual ==
  sgActive =>
    /\ TruncatedAccrual(CurrentAmount, sgTotal, sgRate, now - sgStart)
    /\ (sgClean /\ sgSignedAt = now) =>
         TruncatedAccrual(sgSigned, sgTotal, sgRate, now - sgStart)

\* C12 witness: a claim signed 2.5 s after the start, over a base of 3, for
\* the base plus two seconds' worth
C12_Witness ==
  /\ sgActive /\ sgClean /\ sgSignedAt = now
  /\ now - sgStart = 2500
  /\ sgTotal = 3
  /\ sgSigned = 3 + 2 * sgRate

LoadedChannels == IF initialized THEN channels ELSE LoadChannels(disk, channels)

\* C13: a step of the running process changes the lastFinalizedAmount or the
\* lastFinalizationTime of a channel only as the updateFinalizedAmount of a
\* finalize request whose claimChannel has returned success, and to the amount
\* that was submitted
C13_FinalizedOnlyAfterSettlement ==
  [][\A c \in Channels :
       (nEvents' = nEvents
          /\ (LoadedChannels'[c].lastFinalizedAmount # LoadedChannels[c].lastFinalizedAmount
               \/ LoadedChannels'[c].lastFinalizationTime
                    # LoadedChannels[c].lastFinalizationTime)) =>
         \E p \in Procs :
           /\ pc[p] = "f_update" /\ pc'[p] = "f_write"
           /\ req[p].chan = c
           /\ channels'[c].lastFinalizedAmount = req[p].amount]_vars

\* C14: for a channel with a record, shouldFinalizeClaim recommends
\* finalization exactly when unclaimed >= minAmountToFinalize, or more than
\* maxTimeSinceLastFinalization has passed since lastFinalizationTime and
\* unclaimed > 0, with unclaimed = lastValidAmount - lastFinalizedAmount, which
\* is the unclaimedAmount it reports
C14_RecommendsIffCriteria ==
  (sfOut.evaluated /\ sfIn.d.present) =>
    LET unclaimed == sfIn.d.lastValidAmount - sfIn.d.lastFinalizedAmount
    IN /\ sfOut.shouldFinalize <=>
            \/ unclaimed >= sfIn.minAmountToFinalize
            \/ /\ sfIn.now - sfIn.d.lastFinalizationTime > sfIn.maxTimeSinceLastFinalization
               /\ unclaimed > 0
       /\ sfOut.hasUnclaimed
       /\ sfOut.unclaimedAmount = unclaimed

\* C14 witness: a channel finalized longer ago than the maximum, with an
\* unclaimed amount below the threshold, recommended for the time reason
C14_Witness ==
  /\ sfOut.evaluated
  /\ sfIn.d.present
  /\ sfIn.d.lastFinalizationTime > 0
  /\ sfOut.shouldFinalize
  /\ sfOut.reason = "Time threshold exceeded"
  /\ sfOut.unclaimedAmount < sfIn.minAmountToFinalize

\* C15: for a record with lastFinalizedAmount 0 that was never finalized and
\* was created less than maxTimeSinceLastFinalization ago, no finalization is
\* recommended while lastValidAmount is 1 .. minAmountToFinalize - 1, and at
\* lastValidAmount = minAmountToFinalize it is, with the threshold reason
C15_ThresholdOnFreshChannel ==
  (/\ sfOut.evaluated
   /\ sfIn.d.present
   /\ sfIn.d.lastFinalizedAmount = 0
   /\ sfIn.d.lastFinalizationTime = 0
   /\ sfIn.now - sfIn.d.createdAt < sfIn.maxTimeSinceLastFinalization) =>
    /\ (sfIn.d.lastValidAmount \in 1..(sfIn.minAmountToFinalize - 1)) =>
         ~sfOut.shouldFinalize
    /\ (sfIn.d.lastValidAmount = sfIn.minAmountToFinalize) =>
         (sfOut.shouldFinalize /\ sfOut.reason = "Unclaimed amount threshold reached")

\* the check is given exactly what was signed, and the signer's public key
SameAsSigned ==
  /\ vfIn.vchan = vfIn.chan
  /\ vfIn.vamount = vfIn.amount
  /\ vfIn.vkey = vfIn.wallet
  /\ ~vfIn.tamper

\* C16: a claim signClaim returned passes the signature check for the same
\* channel, the same amount in drops and the signer's public key, and fails
\* it when the amount, the channel, the signature or the key differs
C16_SignVerifySymmetry ==
  vfOut.stage = "checked" => (vfOut.accepted <=> SameAsSigned)

\* what the store's methods see of the claim history: the Map, or before the
\* first load what initialize() will put there
LoadedHistory == IF initialized THEN claimHistory ELSE LoadHistory(disk, claimHistory)

\* handler p holds a claim that can only be rejected: it went to the
\* session's validator and its signature does not verify under the session's key
Doomed(p) == pc[p] = "v_rate" /\ ~SignatureValid(req[p])

\* C17: no step of the handling of a claim that ends rejected changes the
\* channel's record or its claim history, so a rejected claim adds nothing to
\* the rate-limit window
C17_RejectedLeavesStoreUnchanged ==
  [][\A p \in Procs :
       (/\ Doomed(p)
        /\ nEvents' = nEvents
        /\ (pc'[p] # pc[p] \/ loading'[p] # loading[p])) =>
         /\ LoadedChannels'[req[p].chan] = LoadedChannels[req[p].chan]
         /\ LoadedHistory'[req[p].chan] = LoadedHistory[req[p].chan]]_vars

\* C19: an accepted claim is in the channel's claim history: when no request
\* is being handled, the claim that the persisted record holds (its amount
\* and signature) is an entry of the persisted history, so no failure between
\* the record update and the history append leaves it accepted but absent
C19_AcceptedClaimInHistory ==
  \A c \in Channels :
    (/\ \A p \in Procs : pc[p] = "idle"
     /\ disk.kind = "ok"
     /\ disk.channels[c].lastValidAmount > 0) =>
      \E i \in DOMAIN disk.claimHistory[c] :
        /\ disk.claimHistory[c][i].amount = disk.channels[c].lastValidAmount
        /\ disk.claimHistory[c][i].signature = disk.channels[c].lastSignature

\* C20: the rate limit is the first check on every path: no claim that
\* arrives while its channel's rate limit is exceeded has its signature
\* verified and goes on to the monotonicity check
C20_RateLimitCheckedFirst ==
  [][\A p \in Procs :
       (pc[p] = "idle" /\ pc'[p] = "v_read") =>
         ~RateExceeded(LoadedHistory[req'[p].chan], now)]_vars

\* C21: when validateAndStoreClaim returns an accepted claim, the record holds
\* that claim's amount and signature (or a higher amount, of a claim accepted
\* on top of it while its write was in flight), and the reported increment,
\* the amount minus the previousAmount that was read, is strictly positive
C21_RecordHoldsAcceptedClaim ==
  [][\A p \in Procs :
       (pc[p] = "v_write" /\ pc'[p] = "v_hist") =>
         /\ \/ /\ channels'[req[p].chan].lastValidAmount = req[p].amount
               /\ channels'[req[p].chan].lastSignature = req[p].sig
            \/ channels'[req[p].chan].lastValidAmount > req[p].amount
         /\ ValidateClaimResult(req[p], req[p].prev).increment > 0]_vars

\* C22: the channel's on-chain public key is known on both validate paths,
\* and no claim is stored or accepted under another key: the record of a
\* channel never holds a claim with a publicKey other than the channel's
C22_OnlyBoundKeyAccepted ==
  \A c \in Channels :
    GetLastValidAmount(channels, c) > 0 => channels[c].publicKey = SenderKey

\* C23: updateChannel puts into the Map a record that has every field of the
\* data with the data's value and every other field of the existing record
\* (the time stamps aside) with its old value, whether or not a record
\* existed, and whose lastUpdateTime is the time of the call
C23_UpdateChannelMerges ==
  ucOut.done =>
    /\ \A f \in DOMAIN ucIn.data : f \in DOMAIN ucOut.record /\ ucOut.record[f] = ucIn.data[f]
    /\ \A f \in DOMAIN ucIn.existing \ (DOMAIN ucIn.data \cup {"lastModified", "lastUpdateTime"}) :
         f \in DOMAIN ucOut.record /\ ucOut.record[f] = ucIn.existing[f]
    /\ "lastUpdateTime" \in DOMAIN ucOut.record
    /\ ucOut.record["lastUpdateTime"] = ucIn.now

\* C23 as amended: the same merge, with lastModified as the field that is set
\* to the time of every call; lastUpdateTime is a field like the others, set
\* when the data names it and kept otherwise
C23_UpdateChannelMergesLastModified ==
  ucOut.done =>
    /\ \A f \in DOMAIN ucIn.data : f \in DOMAIN ucOut.record /\ ucOut.record[f] = ucIn.data[f]
    /\ \A f \in DOMAIN ucIn.existing \ (DOMAIN ucIn.data \cup {"lastModified"}) :
         f \in DOMAIN ucOut.record /\ ucOut.record[f] = ucIn.existing[f]
    /\ DOMAIN ucOut.record =
         DOMAIN ucIn.existing \cup DOMAIN ucIn.data \cup {"channelId", "lastModified"}
    /\ ucOut.record["lastModified"] = ucIn.now

\* C23 witness: a claim is committed, without a lastUpdateTime, on a record
\* that was finalized; the finalization fields and createdAt are still there
C23_Witness ==
  /\ ucOut.done
  /\ ucIn.existing = SettledRecord
  /\ DOMAIN ucIn.data = {"lastValidAmount", "lastSignature"}
  /\ ucIn.data["lastValidAmount"] = 2
  /\ ucOut.record["lastFinalizedAmount"] = 1
  /\ ucOut.record["lastFinalizationTime"] = 1500
  /\ ucOut.record["createdAt"] = 1000
  /\ ucOut.record["lastUpdateTime"] = 1500
  /\ ucOut.record["lastModified"] = ucIn.now

\* C24: the shouldFinalizeClaim call of a status request changes no record, no
\* history and nothing in the file, starts no write and no settlement, and
\* for a channel without a record its answer is not to finalize
C24_AdviceIsPure ==
  [][\A p \in Procs :
       (/\ pc[p] = "q_advice"
        /\ nEvents' = nEvents
        /\ (pc'[p] # pc[p] \/ loading'[p] # loading[p])) =>
         /\ channels' = channels
         /\ claimHistory' = claimHistory
         /\ disk' = disk
         /\ inflight' = inflight
         /\ pc'[p] = "idle"
         /\ ~HasChannel(channels, req[p].chan) =>
              ~ShouldFinalizeClaim(AdviceInput(channels, req[p].chan, now)).shouldFinalize]_vars

\* C24 witness: shouldFinalizeClaim is about to get the record of a channel
\* with an accepted claim while another request's write is in flight
C24_Witness ==
  \E p \in Procs :
    /\ pc[p] = "q_advice"
    /\ StoreReady(p)
    /\ channels[req[p].chan].lastValidAmount > 0
    /\ Writers # {}

\* C25: a validation that ends in an exception (here BigInt(amount) throwing
\* after the store was read) is answered as a rejection and no step of it
\* changes a record or a claim history of the store
C25_ExceptionLeavesStoreUnchanged ==
  [][\A p \in Procs :
       (/\ pc[p] = "v_bad"
        /\ nEvents' = nEvents
        /\ (pc'[p] # pc[p] \/ loading'[p] # loading[p])) =>
         /\ LoadedChannels' = LoadedChannels
         /\ LoadedHistory' = LoadedHistory
         /\ pc'[p] \in {"v_bad", "idle"}]_vars

\* C26: no step of the handling of a request about one channel changes the
\* record or the claim history of another channel, in memory or in the file
C26_ChannelsIndependent ==
  [][\A p \in Procs, y \in Channels :
       (/\ pc[p] # "idle"
        /\ req[p].chan # y
        /\ nEvents' = nEvents
        /\ (pc'[p] # pc[p] \/ loading'[p] # loading[p])) =>
         /\ LoadedChannels'[y] = LoadedChannels[y]
         /\ LoadedHistory'[y] = LoadedHistory[y]
         /\ (disk.kind = "ok" /\ disk'.kind = "ok") =>
              /\ disk'.channels[y] = disk.channels[y]
              /\ disk'.claimHistory[y] = disk.claimHistory[y]]_vars

\* C27: after any number of addClaimToHistory calls on a channel whose history
\* was empty, the history holds at most 1000 entries, and they are the entries
\* of the latest calls in the order of the calls: a call on a full history
\* drops exactly the oldest entry
C27_HistoryBoundedFifo ==
  /\ Len(hcHist) <= HistoryCap
  /\ Len(hcHist) = (IF hcCalls < HistoryCap THEN hcCalls ELSE HistoryCap)
  /\ \A i \in 1..Len(hcHist) : hcHist[i].amount = hcCalls - Len(hcHist) + i

\* C27 witness: an entry was appended to a full history and the first one left
C27_Witness ==
  /\ hcCalls = HistoryCap + 1
  /\ Len(hcHist) = HistoryCap
  /\ hcHist[1].amount = 2
  /\ hcHist[HistoryCap].amount = HistoryCap + 1

\* C28: in every reachable state the finalized amount of a channel record is
\* at most its last valid amount, so the unclaimed amount is never negative
C28_FinalizedAtMostValid ==
  \A c \in Channels :
    channels[c].lastFinalizedAmount <= channels[c].lastValidAmount

\* C29: no step of the running process lowers the lastFinalizedAmount of a
\* channel, also when finalize requests for the channel overlap
C29_FinalizedNeverDecreases ==
  [][\A c \in Channels :
       nEvents' = nEvents =>
         LoadedChannels'[c].lastFinalizedAmount >= LoadedChannels[c].lastFinalizedAmount]_vars

\* the amount, signature and key of record r are those of one claim for
\* channel c: the signature is the key's signature of that amount
MatchingPair(c, r) ==
  VerifySignature(c, r.lastValidAmount, r.lastSignature, r.publicKey)

C31_NoSettlementWithoutClaim ==
  \A p \in Procs :
    pc[p] = "f_claim" => (req[p].amount > 0 /\ req[p].sig # NoSig)

\* C32: without updateTotal, a claim signed by a session is never lower than
\* a claim it signed earlier: the claim signed last holds the highest amount
\* signed so far
C32_SignedNonDecreasing ==
  sgClean => sgSigned >= sgHigh

\* C33: a start request registers its session only when the (channel, role)
\* has no active session: an existing session and its validator are never
\* replaced, also when two start requests overlap across getChannelInfo
C33_OneSessionPerRole ==
  [][\A p \in Procs :
       (pc[p] = "s_info" /\ pc'[p] = "s_has") =>
         sessions[req[p].chan] = "none"]_vars

\* C34: the persisted state is loaded at most once: a load that finishes after
\* another one has completed leaves the Maps as they are, so no update applied
\* in memory since is discarded
C34_InitializeLoadsOnce ==
  [][\A p \in Procs :
       (loading[p] /\ ~loading'[p] /\ initialized /\ nEvents' = nEvents) =>
         /\ channels' = channels
         /\ claimHistory' = claimHistory]_vars

\* handler p's writeFile completes with success in this step
WriteDone(p) ==
  /\ p \in Writers
  /\ inflight[p].kind = "ok"
  /\ disk' = inflight[p]
  /\ inflight'[p] = NoFile
  /\ nEvents' = nEvents

\* C35: when the last of the writes in flight has completed, the file holds
\* the state in memory: an older snapshot is never the final content
C35_LastWriteIsLatestState ==
  [][\A p \in Procs :
       (WriteDone(p) /\ Writers \ {p} = {}) =>
         /\ disk'.channels = channels'
         /\ disk'.claimHistory = claimHistory']_vars

\* C36: the ledger never executes more payments of a session than its
\* paymentCount, and a session whose paymentsCompleted has reached
\* paymentCount is no longer active and is kept in the payment history
C36_PaymentsWithinCount ==
  /\ rlPaid <= rlCount
  /\ (rlCount > 0 /\ rlCompleted >= rlCount) => (~rlActive /\ rlHistory >= 0)

\* C37: every timer that is running for the sessionId is the one registered
\* in activeStreams, so that stopAutoExecution can clear it: no earlier timer
\* of the sessionId is left running
C37_RunningTimersRegistered ==
  \A t \in tmRunning : t = tmRegistered

\* call p returns or throws in this step
CxEnds(p) ==
  /\ cxPc[p] \in {"attempt", "backoff", "wait", "idle"}
  /\ cxPc'[p] \in {"returned", "threw", "timeout"}

\* C38: while every attempt fails a connect() call makes at most
\* maxReconnectAttempts retries, a successful connection leaves reconnectAttempts at 0, and isConnecting is
\* false when a call returns or throws
C38_ConnectTerminates ==
  [][\A p \in CxProcs :
       /\ cxAllFailed'[p] => cxRetries'[p] <= MaxReconnectAttempts
       /\ (cxPc[p] = "attempt" /\ cxPc'[p] = "returned") => cxAttempts' = 0
       /\ CxEnds(p) => ~cxIsConnecting']_vars

\* C38 as amended: the same, except that a call which waited for another
\* call's attempt and throws 'Connection timeout' leaves isConnecting true
C38_ConnectTerminatesButTimeout ==
  [][\A p \in CxProcs :
       /\ cxAllFailed'[p] => cxRetries'[p] <= MaxReconnectAttempts
       /\ (cxPc[p] = "attempt" /\ cxPc'[p] = "returned") => cxAttempts' = 0
       /\ (CxEnds(p) /\ cxPc'[p] # "timeout") => ~cxIsConnecting']_vars

\* C38 witness: every attempt of a call has failed and it has thrown after
\* maxReconnectAttempts retries
C38_Witness ==
  \E p \in CxProcs :
    /\ cxPc[p] = "threw"
    /\ cxAllFailed[p]
    /\ cxRetries[p] = MaxReconnectAttempts
    /\ cxAttempts = MaxReconnectAttempts
    /\ ~cxIsConnecting

\* the contract stored under id was made by this step's createContract
CreatedNow(id) ==
  /\ rgLast'.op = "create"
  /\ rgLast'.result = "ok"
  /\ rgLast'.contractId = id
  /\ registry'[id].providerId = rgLast'.providerId
  /\ registry'[id].createdAt = rgNow

\* C39: a contract is changed or removed only by a call of its provider or
\* of 'system', any other provider's update or delete is answered
\* Unauthorized and changes nothing, createContract leaves every existing
\* contract as it is, and contractId, providerId and createdAt of a stored
\* contract stay as they were at creation
C39_OwnerOnlyAndImmutable ==
  [][/\ \A id \in DOMAIN registry :
          /\ (id \notin DOMAIN registry' \/ registry'[id] # registry[id]) =>
               /\ rgLast'.op \in {"update", "delete"}
               /\ rgLast'.contractId = id
               /\ rgLast'.result = "ok"
               /\ rgLast'.providerId \in {registry[id].providerId, "system"}
          /\ id \in DOMAIN registry' =>
               /\ registry'[id].contractId = id
               /\ registry'[id].providerId = registry[id].providerId
               /\ registry'[id].createdAt = registry[id].createdAt
     /\ \A id \in DOMAIN registry' \ DOMAIN registry :
          /\ CreatedNow(id)
          /\ registry'[id].contractId = id
     /\ (/\ rgOps' # rgOps
         /\ rgLast'.op \in {"update", "delete"}
         /\ rgLast'.contractId \in DOMAIN registry
         /\ rgLast'.providerId \notin
              {registry[rgLast'.contractId].providerId, "system"}) =>
          /\ rgLast'.result = "Unauthorized"
          /\ registry' = registry]_vars

\* C39 witness: a contract made by alice and since updated by alice keeps its
\* contractId, providerId and createdAt, and Bob's call on it has just been
\* answered Unauthorized
C39_Witness ==
  \E id \in DOMAIN registry :
    /\ registry[id].providerId = "alice"
    /\ registry[id].contractId = id
    /\ registry[id].updatedAt > registry[id].createdAt
    /\ rgLast.contractId = id
    /\ rgLast.providerId = "Bob"
    /\ rgLast.result = "Unauthorized"

====
